---------------------------- MODULE Spec2Model ----------------------------
(***************************************************************************)
(* Model of the Bedrock agent stream driver (Agent.invoke_agent) and of    *)
(* the trace / citation / media handlers it calls                          *)
(* (src/src/app/src/agent/agent.py, handlers.py, types.py).                *)
(*                                                                         *)
(* Python dicts are TLA+ records whose DOMAIN is the set of keys present;  *)
(* the empty dict is <<>>.  A str is a sequence of one-character strings.  *)
(* A raised exception is the flag err of the handler context; nothing in   *)
(* invoke_agent catches, so it ends the invocation (pc = "aborted").       *)
(***************************************************************************)
EXTENDS Integers, Sequences, FiniteSets, TLC

VARIABLES
    pc,            \* "running" (inside the for loop) | "done" (returned) |
                   \* "aborted" (a handler raised) | "transport_failed"
    output_text,   \* agent.py:90   the answer so far
    stats,         \* agent.py:89   AgentStats
    image_files,   \* agent.py:91   running list of image files
    html_files,    \* agent.py:92   running list of HTML files
    span_events,   \* what langfuse_span has received, in order
    stored,        \* session store: what add_assistant_message received
    history,       \* the events consumed so far, each with the outcome of the
                   \* agent-name lookup made while it was handled
    calls,         \* agent.py:145-158  the calls made after the loop, in order
    peer,          \* a second invoke_agent call running at the same time (another
                   \* user session): its own locals, span, store and history
    tool           \* a call of the clinicaltrials tool (src/tools/clinicaltrials):
                   \* its arguments, locals and result

vars == << pc, output_text, stats, image_files, html_files, span_events,
           stored, history, calls, peer, tool >>

\* the variables of the app's stream driver
agent_vars == << pc, output_text, stats, image_files, html_files, span_events,
                 stored, history, calls, peer >>

-----------------------------------------------------------------------------
(* Python helpers *)

\* d.get(k, default)
Get(d, k, default) == IF k \in DOMAIN d THEN d[k] ELSE default

\* the empty dict / empty list / empty str
Empty == << >>

-----------------------------------------------------------------------------
(* IEEE-754 binary64 values in [0, 32), as used by AgentStats.step_counter. *)
(* A value v is the pair [hi, lo] with v * 2^56 = hi * 2^30 + lo, so that   *)
(* every double of that range with v >= 1/16 (and 0) is represented         *)
(* exactly and each limb fits a 32-bit integer.                             *)

LimbBase == 1073741824      \* 2^30
OneHi    == 67108864        \* 2^26: hi limb of 1.0

\* float(k) for an int k
FromInt(k) == [hi |-> k * OneHi, lo |-> 0]

\* the double written 0.1 in handlers.py:246 (0x1.999999999999ap-4)
TenthHi == 6710886
TenthLo == 429496730
Tenth == [hi |-> TenthHi, lo |-> TenthLo]

\* unit in the last place of the binade of a value with hi limb h,
\* in units of 2^-56 (h >= 2^22, i.e. the value is at least 1/16)
RECURSIVE UlpOf(_)
UlpOf(h) == IF h < 2 * 4194304 THEN 1 ELSE 2 * UlpOf(h \div 2)

\* round the exact sum [hi, lo] to the nearest double, ties to even
RoundNearestEven(s) ==
    IF s.hi = 0 /\ s.lo = 0 THEN s
    ELSE LET u  == UlpOf(s.hi)
             q  == s.lo \div u
             r  == s.lo % u
             up == (2 * r > u) \/ (2 * r = u /\ q % 2 = 1)
             l  == (IF up THEN q + 1 ELSE q) * u
         IN  IF l >= LimbBase THEN [hi |-> s.hi + 1, lo |-> l - LimbBase]
                              ELSE [hi |-> s.hi, lo |-> l]

\* x + y on doubles
FAdd(x, y) ==
    LET l == x.lo + y.lo
        s == IF l >= LimbBase THEN [hi |-> x.hi + y.hi + 1, lo |-> l - LimbBase]
                              ELSE [hi |-> x.hi + y.hi, lo |-> l]
    IN  RoundNearestEven(s)

\* math.floor(x), an int
Floor(x) == x.hi \div OneHi

\* x <= y on doubles
FLeq(x, y) == x.hi < y.hi \/ (x.hi = y.hi /\ x.lo <= y.lo)

\* whether the double is a whole number
IsWhole(x) == x.lo = 0 /\ x.hi % OneHi = 0

-----------------------------------------------------------------------------
(* types.py: AgentStats *)

AgentStats == [input_tokens |-> 0, output_tokens |-> 0, step_counter |-> FromInt(0)]


-----------------------------------------------------------------------------
(* The handler context: the AgentStats object and the langfuse span that   *)
(* every handler receives, and whether an exception is propagating.        *)


\* an uncaught exception (KeyError, IndexError, ...) leaves the context as it is
Raise(c) == [c EXCEPT !.err = TRUE]

\* langfuse_span.event(name=..., metadata=...)
Emit(c, name) == [c EXCEPT !.events = Append(@, [name |-> name, level |-> "DEFAULT"])]

\* sequencing of statements: the next statement runs unless one has raised
Then(c, F(_)) == IF c.err THEN c ELSE F(c)

\* isinstance(v, str) for a value tagged [str |-> s] or [int |-> n]
IsStr(v) == "str" \in DOMAIN v
PyStr(s) == [str |-> s]
NoneValue == [none |-> TRUE]

-----------------------------------------------------------------------------
(* handlers.py: statistics *)

\* handlers.py:261-264
update_stats_from_usage(usage, c) ==
    IF "inputTokens" \notin DOMAIN usage THEN Raise(c)
    ELSE LET c1 == [c EXCEPT !.stats.input_tokens = @ + usage.inputTokens]
         IN  IF "outputTokens" \notin DOMAIN usage THEN Raise(c1)
             ELSE [c1 EXCEPT !.stats.output_tokens = @ + usage.outputTokens]

\* handlers.py:242 with "chain_length < 1": a chain of length 1 (the supervisor
\* itself) counted as a sub-agent
StepCounterAfterOffByOne(step_counter, chain_length) ==
    IF chain_length < 1
    THEN FromInt(Floor(FAdd(step_counter, FromInt(1))))
    ELSE FAdd(step_counter, Tenth)

\* handlers.py:243 without math.floor: the minor ticks are carried over
StepCounterAfterNoFloor(step_counter, chain_length) ==
    IF chain_length <= 1
    THEN FAdd(step_counter, FromInt(1))
    ELSE FAdd(step_counter, Tenth)

\* handlers.py:243 with the "+ 1" lost: math.floor(stats.step_counter)
StepCounterAfterNoIncrement(step_counter, chain_length) ==
    IF chain_length <= 1
    THEN FromInt(Floor(step_counter))
    ELSE FAdd(step_counter, Tenth)

\* handlers.py:242-247: the step counter after a reasoning step
StepCounterAfter(step_counter, chain_length) ==
    IF chain_length <= 1
    THEN FromInt(Floor(FAdd(step_counter, FromInt(1))))
    ELSE FAdd(step_counter, Tenth)

\* handlers.py:234-258
handle_reasoning_step(rationale_text, agent_name, chain_length, c) ==
    LET sc == StepCounterAfter(c.stats.step_counter, chain_length)
    IN  [c EXCEPT !.stats.step_counter = sc,
                  !.events = Append(@, [name |-> "agent-reasoning-step",
                                        level |-> "DEFAULT",
                                        step_number |-> sc,
                                        agent_name |-> agent_name])]

-----------------------------------------------------------------------------
(* handlers.py: orchestration sub-handlers *)

\* handlers.py:88-93
handle_model_invocation_input(model_input, c) == Emit(c, "agent-model-input")

\* handlers.py:96-104
handle_model_invocation_output(model_output, c) ==
    IF "metadata" \notin DOMAIN model_output THEN Raise(c)
    ELSE LET c1 == IF "usage" \in DOMAIN model_output.metadata
                   THEN update_stats_from_usage(model_output.metadata.usage, c)
                   ELSE c
             emit(x) == IF "rawResponse" \notin DOMAIN model_output
                           \/ "content" \notin DOMAIN model_output.rawResponse
                        THEN Raise(x)
                        ELSE Emit(x, "agent-model-output")
         IN  Then(c1, emit)

\* handlers.py:67-85
handle_tool_invocation(action_input, c) ==
    IF "parameters" \notin DOMAIN action_input THEN Raise(c)
    ELSE IF \E i \in DOMAIN action_input.parameters :
               {"name", "value"} \ DOMAIN action_input.parameters[i] # {}
         THEN Raise(c)
         ELSE Emit(c, "agent-tool-invocation")

\* handlers.py:107-116
handle_agent_collaborator(collab_input, c) == Emit(c, "agent-agent-collaborator")

\* handlers.py:119-128
handle_knowledge_base_lookup(kb_input, c) == Emit(c, "agent-knowledge-base-lookup")

\* handlers.py:131-152
handle_invocation_input(invocation_input, c) ==
    LET invocation_type == Get(invocation_input, "invocationType", NoneValue)
    IN  IF ~IsStr(invocation_type) THEN c
        ELSE CASE invocation_type.str = "AGENT_COLLABORATOR" ->
                    handle_agent_collaborator(
                        Get(invocation_input, "agentCollaboratorInvocationInput", Empty), c)
               [] invocation_type.str = "ACTION_GROUP" ->
                    handle_tool_invocation(
                        Get(invocation_input, "actionGroupInvocationInput", Empty), c)
               [] invocation_type.str = "KNOWLEDGE_BASE" ->
                    handle_knowledge_base_lookup(
                        Get(invocation_input, "knowledgeBaseLookupInput", Empty), c)
               [] OTHER -> c

\* handlers.py:543-551
handle_code_interpreter(input_data, c) ==
    IF Get(input_data, "code", Empty) # Empty THEN Emit(c, "agent-code-interpreter") ELSE c

\* handlers.py:155-164
handle_agent_collaborator_observation(output, c) ==
    Emit(c, "agent-agent-collaborator-response")

\* handlers.py:167-179 (json.JSONDecodeError is caught)
handle_action_group_observation(output, c) == Emit(c, "agent-action-group-response")

\* handlers.py:182-192
handle_knowledge_base_observation(kb_output, c) == Emit(c, "agent-knowledge-base-response")

\* handlers.py:195-203
handle_reprompt_observation(response, c) == Emit(c, "agent-reprompt-response")

\* handlers.py:206-231
handle_observation(observation, c) ==
    LET observation_type == Get(observation, "type", NoneValue)
    IN  IF ~IsStr(observation_type) THEN c
        ELSE CASE observation_type.str = "AGENT_COLLABORATOR" ->
                    handle_agent_collaborator_observation(
                        Get(observation, "agentCollaboratorInvocationOutput", Empty), c)
               [] observation_type.str = "ACTION_GROUP" ->
                    handle_action_group_observation(observation, c)
               [] observation_type.str = "KNOWLEDGE_BASE" ->
                    handle_knowledge_base_observation(
                        Get(observation, "knowledgeBaseLookupOutput", Empty), c)
               [] observation_type.str = "REPROMPT" ->
                    handle_reprompt_observation(Get(observation, "repromptResponse", Empty), c)
               [] OTHER -> c

\* handlers.py:286-313 with the observation handled before the invocation input
handle_orchestration_trace_observation_first(trace, event_trace_dict, agent_name, c) ==
    LET s1(x) == IF "modelInvocationInput" \in DOMAIN trace
                 THEN handle_model_invocation_input(trace.modelInvocationInput, x) ELSE x
        s2(x) == IF "modelInvocationOutput" \in DOMAIN trace
                 THEN handle_model_invocation_output(trace.modelInvocationOutput, x) ELSE x
        s3(x) == IF "rationale" \in DOMAIN trace
                 THEN LET chain_length == Len(Get(event_trace_dict, "callerChain", Empty))
                      IN  IF "text" \notin DOMAIN trace.rationale THEN Raise(x)
                          ELSE handle_reasoning_step(trace.rationale.text, agent_name,
                                                     chain_length, x)
                 ELSE x
        s4(x) == IF "invocationInput" \in DOMAIN trace
                 THEN LET input_data == trace.invocationInput
                          ci(y) == IF "codeInterpreterInvocationInput" \in DOMAIN input_data
                                   THEN handle_code_interpreter(
                                            input_data.codeInterpreterInvocationInput, y)
                                   ELSE y
                      IN  Then(handle_invocation_input(input_data, x), ci)
                 ELSE x
        s5(x) == IF "observation" \in DOMAIN trace
                 THEN handle_observation(trace.observation, x) ELSE x
    IN  Then(Then(Then(Then(Then(c, s1), s2), s3), s5), s4)

\* handlers.py:286-313
handle_orchestration_trace(trace, event_trace_dict, agent_name, c) ==
    LET s1(x) == IF "modelInvocationInput" \in DOMAIN trace
                 THEN handle_model_invocation_input(trace.modelInvocationInput, x) ELSE x
        s2(x) == IF "modelInvocationOutput" \in DOMAIN trace
                 THEN handle_model_invocation_output(trace.modelInvocationOutput, x) ELSE x
        s3(x) == IF "rationale" \in DOMAIN trace
                 THEN LET chain_length == Len(Get(event_trace_dict, "callerChain", Empty))
                      IN  IF "text" \notin DOMAIN trace.rationale THEN Raise(x)
                          ELSE handle_reasoning_step(trace.rationale.text, agent_name,
                                                     chain_length, x)
                 ELSE x
        s4(x) == IF "invocationInput" \in DOMAIN trace
                 THEN LET input_data == trace.invocationInput
                          ci(y) == IF "codeInterpreterInvocationInput" \in DOMAIN input_data
                                   THEN handle_code_interpreter(
                                            input_data.codeInterpreterInvocationInput, y)
                                   ELSE y
                      IN  Then(handle_invocation_input(input_data, x), ci)
                 ELSE x
        s5(x) == IF "observation" \in DOMAIN trace
                 THEN handle_observation(trace.observation, x) ELSE x
    IN  Then(Then(Then(Then(Then(c, s1), s2), s3), s4), s5)

-----------------------------------------------------------------------------
(* handlers.py: the other trace categories *)

\* handlers.py:282-283, 331-332 and 526-527 without the update: only the
\* orchestration handler feeds Stats
UsageOfIgnored(output, c) == c

\* the "metadata" in output and "usage" in output["metadata"] test of
\* handlers.py:282-283, 331-332 and 526-527
UsageOf(output, c) ==
    IF "metadata" \in DOMAIN output /\ "usage" \in DOMAIN output.metadata
    THEN update_stats_from_usage(output.metadata.usage, c)
    ELSE c

\* handlers.py:267-283
handle_preprocessing_trace(trace, c) ==
    LET s1(x) == IF "modelInvocationInput" \in DOMAIN trace
                 THEN handle_model_invocation_input(trace.modelInvocationInput, x) ELSE x
        s2(x) == IF "modelInvocationOutput" \notin DOMAIN trace THEN Raise(x)
                 ELSE LET output == trace.modelInvocationOutput
                          parsed(y) ==
                              IF "parsedResponse" \in DOMAIN output
                              THEN IF {"isValid", "rationale"} \ DOMAIN output.parsedResponse # {}
                                   THEN Raise(y)
                                   ELSE Emit(y, "agent-preprocessing-preprocessing-step")
                              ELSE y
                          usage(y) == UsageOf(output, y)
                      IN  Then(Then(x, parsed), usage)
    IN  Then(Then(c, s1), s2)

\* handlers.py:316-332
handle_postprocessing_trace(trace, c) ==
    LET s1(x) == IF "modelInvocationInput" \in DOMAIN trace
                 THEN handle_model_invocation_input(trace.modelInvocationInput, x) ELSE x
        s2(x) == IF "modelInvocationOutput" \in DOMAIN trace
                 THEN LET output == trace.modelInvocationOutput
                          parsed(y) ==
                              IF "parsedResponse" \in DOMAIN output
                              THEN IF "text" \notin DOMAIN output.parsedResponse
                                   THEN Raise(y)
                                   ELSE Emit(y, "agent-postprocessing-postprocessing-step")
                              ELSE y
                          usage(y) == UsageOf(output, y)
                      IN  Then(Then(x, parsed), usage)
                 ELSE x
    IN  Then(Then(c, s1), s2)

\* handlers.py:335-343 with the event logged at the default level
handle_failure_trace_default_level(trace, c) == Emit(c, "agent-failure-trace")

\* handlers.py:335-343
handle_failure_trace(trace, c) ==
    [c EXCEPT !.events = Append(@, [name |-> "agent-failure-trace", level |-> "ERROR"])]

\* the keys every item of a policy list must carry for the st.write of
\* handlers.py:350-370 not to raise
PolicyLists ==
    << [policy |-> "topicPolicy", list |-> "topics", keys |-> {"name", "type", "action"}],
       [policy |-> "contentPolicy", list |-> "filters", keys |-> {"type", "confidence", "action"}],
       [policy |-> "wordPolicy", list |-> "customWords", keys |-> {"match", "action"}],
       [policy |-> "wordPolicy", list |-> "managedWordLists", keys |-> {"type", "match", "action"}],
       [policy |-> "sensitiveInformationPolicy", list |-> "piiEntities",
        keys |-> {"type", "match", "action"}],
       [policy |-> "sensitiveInformationPolicy", list |-> "regexes", keys |-> {"name", "action"}] >>

\* handlers.py:346-375
handle_policy_assessments(assessment, c) ==
    IF \E i \in DOMAIN PolicyLists :
          /\ PolicyLists[i].policy \in DOMAIN assessment
          /\ LET items == Get(assessment[PolicyLists[i].policy], PolicyLists[i].list, Empty)
             IN  \E j \in DOMAIN items : PolicyLists[i].keys \ DOMAIN items[j] # {}
    THEN Raise(c)
    ELSE Emit(c, "agent-policy-assessments")

\* for assessment in assessments: handle_policy_assessments(assessment, span)
RECURSIVE ForEachAssessment(_, _)
ForEachAssessment(assessments, c) ==
    IF assessments = Empty \/ c.err THEN c
    ELSE ForEachAssessment(Tail(assessments),
                           handle_policy_assessments(Head(assessments), c))

\* handlers.py:378-389
handle_guardrail_trace(trace, c) ==
    LET out(x) == ForEachAssessment(Get(trace, "outputAssessments", Empty), x)
    IN  Then(ForEachAssessment(Get(trace, "inputAssessments", Empty), c), out)

\* handlers.py:518-540.  rawResponse.content is the outcome of json.loads on
\* it: [parse |-> "error"] (JSONDecodeError, caught) or [parse |-> "ok",
\* value |-> the decoded object]; a missing "content" key and an empty
\* "content" list of the decoded object are caught as well.
handle_routing_classifier_trace(trace, c) ==
    IF "modelInvocationOutput" \in DOMAIN trace
    THEN LET output == trace.modelInvocationOutput
             raw(x) ==
                 IF "rawResponse" \in DOMAIN output
                 THEN IF /\ "content" \in DOMAIN output.rawResponse
                         /\ output.rawResponse.content.parse = "ok"
                         /\ Get(output.rawResponse.content.value, "content", <<Empty>>) # Empty
                      THEN Emit(x, "agent-routing-classifier-output")
                      ELSE x
                 ELSE x
         IN  Then(UsageOf(output, c), raw)
    ELSE c

-----------------------------------------------------------------------------
(* handlers.py:554-603 process_trace_event *)

\* An agentAliasArn is modelled by the list arn.split("/") of its segments;
\* the empty string is <<"">>.
\* handlers.py:564-579.  lookup is what bedrock-agent get_agent does when it
\* is called: [raises |-> TRUE] or [raises |-> FALSE, agentName |-> name].
\* The result is [name, err].
ResolveAgentName(event_trace_dict, lookup) ==
    LET supervisor == [name |-> "Supervisor", err |-> FALSE]
    IN  IF "callerChain" \notin DOMAIN event_trace_dict THEN supervisor
        ELSE LET chain == event_trace_dict.callerChain
             IN  IF Len(chain) <= 1 THEN supervisor
                 ELSE IF "agentAliasArn" \notin DOMAIN chain[2]
                      THEN [name |-> "Supervisor", err |-> TRUE]      \* KeyError
                 ELSE LET sub_agent_alias_arn == chain[2].agentAliasArn
                      IN  IF sub_agent_alias_arn = <<"">> THEN supervisor
                          ELSE IF Len(sub_agent_alias_arn) < 2
                               THEN [name |-> "Supervisor", err |-> TRUE]   \* IndexError
                          ELSE IF sub_agent_alias_arn[2] = "" THEN supervisor
                          ELSE IF lookup.raises THEN supervisor
                          ELSE [name |-> lookup.agentName, err |-> FALSE]

\* handlers.py:590-603 closed by "else: raise": a record that is neither
\* pre-processing, orchestration nor post-processing is rejected
DispatchTraceStrict(trace_dict, event_trace_dict, agent_name, c) ==
    LET routing(x) == IF "routingClassifierTrace" \in DOMAIN trace_dict
                      THEN handle_routing_classifier_trace(trace_dict.routingClassifierTrace, x)
                      ELSE x
        failure(x) == IF "failureTrace" \in DOMAIN trace_dict
                      THEN handle_failure_trace(trace_dict.failureTrace, x)
                      ELSE x
        guardrail(x) == IF "guardrailTrace" \in DOMAIN trace_dict
                        THEN handle_guardrail_trace(trace_dict.guardrailTrace, x)
                        ELSE x
        phase(x) == IF "preProcessingTrace" \in DOMAIN trace_dict
                    THEN handle_preprocessing_trace(trace_dict.preProcessingTrace, x)
                    ELSE IF "orchestrationTrace" \in DOMAIN trace_dict
                    THEN handle_orchestration_trace(trace_dict.orchestrationTrace,
                                                    event_trace_dict, agent_name, x)
                    ELSE IF "postProcessingTrace" \in DOMAIN trace_dict
                    THEN handle_postprocessing_trace(trace_dict.postProcessingTrace, x)
                    ELSE Raise(x)
    IN  Then(Then(Then(Then(c, routing), failure), guardrail), phase)

\* handlers.py:590-603 with "if" in place of each "elif": pre-processing,
\* orchestration and post-processing tested independently
DispatchTraceIndependent(trace_dict, event_trace_dict, agent_name, c) ==
    LET routing(x) == IF "routingClassifierTrace" \in DOMAIN trace_dict
                      THEN handle_routing_classifier_trace(trace_dict.routingClassifierTrace, x)
                      ELSE x
        failure(x) == IF "failureTrace" \in DOMAIN trace_dict
                      THEN handle_failure_trace(trace_dict.failureTrace, x)
                      ELSE x
        guardrail(x) == IF "guardrailTrace" \in DOMAIN trace_dict
                        THEN handle_guardrail_trace(trace_dict.guardrailTrace, x)
                        ELSE x
        pre(x) == IF "preProcessingTrace" \in DOMAIN trace_dict
                  THEN handle_preprocessing_trace(trace_dict.preProcessingTrace, x)
                  ELSE x
        orch(x) == IF "orchestrationTrace" \in DOMAIN trace_dict
                   THEN handle_orchestration_trace(trace_dict.orchestrationTrace,
                                                   event_trace_dict, agent_name, x)
                   ELSE x
        post(x) == IF "postProcessingTrace" \in DOMAIN trace_dict
                   THEN handle_postprocessing_trace(trace_dict.postProcessingTrace, x)
                   ELSE x
    IN  Then(Then(Then(Then(Then(Then(c, routing), failure), guardrail), pre), orch), post)

\* handlers.py:581-603: the category dispatch
DispatchTrace(trace_dict, event_trace_dict, agent_name, c) ==
    LET routing(x) == IF "routingClassifierTrace" \in DOMAIN trace_dict
                      THEN handle_routing_classifier_trace(trace_dict.routingClassifierTrace, x)
                      ELSE x
        failure(x) == IF "failureTrace" \in DOMAIN trace_dict
                      THEN handle_failure_trace(trace_dict.failureTrace, x)
                      ELSE x
        guardrail(x) == IF "guardrailTrace" \in DOMAIN trace_dict
                        THEN handle_guardrail_trace(trace_dict.guardrailTrace, x)
                        ELSE x
        phase(x) == IF "preProcessingTrace" \in DOMAIN trace_dict
                    THEN handle_preprocessing_trace(trace_dict.preProcessingTrace, x)
                    ELSE IF "orchestrationTrace" \in DOMAIN trace_dict
                    THEN handle_orchestration_trace(trace_dict.orchestrationTrace,
                                                    event_trace_dict, agent_name, x)
                    ELSE IF "postProcessingTrace" \in DOMAIN trace_dict
                    THEN handle_postprocessing_trace(trace_dict.postProcessingTrace, x)
                    ELSE x
    IN  Then(Then(Then(Then(c, routing), failure), guardrail), phase)

\* handlers.py:554-603
process_trace_event(trace_obj, event_trace, lookup, c) ==
    LET resolved == ResolveAgentName(event_trace, lookup)
    IN  IF resolved.err THEN Raise(c)
        ELSE DispatchTrace(trace_obj, event_trace, resolved.name, c)

-----------------------------------------------------------------------------
(* Python str operations on sequences of characters *)

\* s[a:b] with Python's treatment of negative and out-of-range indices
Slice(s, a, b) ==
    LET n  == Len(s)
        lo == IF a < 0 THEN (IF a + n < 0 THEN 0 ELSE a + n) ELSE (IF a > n THEN n ELSE a)
        hi == IF b < 0 THEN (IF b + n < 0 THEN 0 ELSE b + n) ELSE (IF b > n THEN n ELSE b)
    IN  IF lo >= hi THEN << >> ELSE SubSeq(s, lo + 1, hi)

\* whether the literal lit occurs in text at (1-based) position i
MatchAt(text, i, lit) ==
    /\ i + Len(lit) - 1 <= Len(text)
    /\ \A j \in 1..Len(lit) : text[i + j - 1] = lit[j]

Digits == {"0", "1", "2", "3", "4", "5", "6", "7", "8", "9"}

\* length of the longest run of digits of text starting at position i
RECURSIVE DigitRun(_, _)
DigitRun(text, i) ==
    IF i <= Len(text) /\ text[i] \in Digits THEN 1 + DigitRun(text, i + 1) ELSE 0

\* handlers.py:485-487: the three patterns
NumberedOpen   == << "\n", "\n", "<", "s", "o", "u", "r", "c", "e", "s", ">", "\n" >>
NumberedClose  == << "\n", "<", "/", "s", "o", "u", "r", "c", "e", "s", ">", "\n", "\n" >>
RedactedMarker == << "<", "s", "o", "u", "r", "c", "e", "s", ">", "<", "R", "E", "D", "A", "C", "T", "E", "D", ">", "<", "/", "s", "o", "u", "r", "c", "e", "s", ">" >>
EmptyMarker    == << "<", "s", "o", "u", "r", "c", "e", "s", ">", "<", "/", "s", "o", "u", "r", "c", "e", "s", ">" >>

\* length of the match of  \n\n<sources>\n\d+\n</sources>\n\n  at position i,
\* 0 when there is none
NumberedMatchLen(text, i) ==
    IF MatchAt(text, i, NumberedOpen)
    THEN LET d == DigitRun(text, i + Len(NumberedOpen))
         IN  IF d >= 1 /\ MatchAt(text, i + Len(NumberedOpen) + d, NumberedClose)
             THEN Len(NumberedOpen) + d + Len(NumberedClose)
             ELSE 0
    ELSE 0

\* re.sub(pattern, "", text): the leftmost non-overlapping matches are removed
\* in one pass over the text, from position i on
RECURSIVE SubNumbered(_, _)
SubNumbered(text, i) ==
    IF i > Len(text) THEN << >>
    ELSE LET m == NumberedMatchLen(text, i)
         IN  IF m > 0 THEN SubNumbered(text, i + m)
             ELSE << text[i] >> \o SubNumbered(text, i + 1)

RECURSIVE SubLiteral(_, _, _)
SubLiteral(text, lit, i) ==
    IF i > Len(text) THEN << >>
    ELSE IF MatchAt(text, i, lit) THEN SubLiteral(text, lit, i + Len(lit))
         ELSE << text[i] >> \o SubLiteral(text, lit, i + 1)

\* handlers.py:484-491: for pattern in patterns: cleaned_text = re.sub(...)
StripMarkers(orig_answer) ==
    SubLiteral(SubLiteral(SubNumbered(orig_answer, 1), RedactedMarker, 1), EmptyMarker, 1)

-----------------------------------------------------------------------------
(* handlers.py: citations *)

\* the citations of a chunk event, as make_fully_cited_answer reads them
\* handlers.py:480
CitationsOf(event) ==
    Get(Get(Get(event, "chunk", Empty), "attribution", Empty), "citations", Empty)

\* handlers.py:496-497 need this path of keys
HasSpan(citation) ==
    /\ "generatedResponsePart" \in DOMAIN citation
    /\ "textResponsePart" \in DOMAIN citation.generatedResponsePart
    /\ "span" \in DOMAIN citation.generatedResponsePart.textResponsePart
    /\ {"start", "end"} \subseteq DOMAIN citation.generatedResponsePart.textResponsePart.span

SpanOf(citation) == citation.generatedResponsePart.textResponsePart.span

\* handlers.py:499-500
RefUrl(citation) ==
    LET refs == Get(citation, "retrievedReferences", Empty)
    IN  IF refs # Empty
        THEN Get(Get(Get(refs[1], "location", Empty), "s3Location", Empty), "uri", Empty)
        ELSE Empty

\* handlers.py:496-497 with the corrections of the first citation (1 and
\* 2 - 4) applied to every citation, whatever its index
RECURSIVE CiteLoopFixedCorrection(_, _, _, _)
CiteLoopFixedCorrection(cleaned_text, citations, idx, fully_cited_answer) ==
    IF idx >= Len(citations) THEN [value |-> fully_cited_answer, err |-> FALSE]
    ELSE LET citation == citations[idx + 1]
         IN  IF ~HasSpan(citation) THEN [value |-> fully_cited_answer, err |-> TRUE]
             ELSE LET start   == SpanOf(citation).start - 1
                      end     == SpanOf(citation).end - 2 + 4
                      ref_url == RefUrl(citation)
                      cited_text == Slice(cleaned_text, start, end)
                                      \o << " ", "[" >> \o ref_url \o << "]", " " >>
                  IN  IF ref_url = Empty
                      THEN [value |-> cleaned_text, err |-> FALSE]
                      ELSE CiteLoopFixedCorrection(cleaned_text, citations, idx + 1,
                                    IF idx = 0
                                    THEN Slice(cleaned_text, 0, start) \o cited_text
                                    ELSE fully_cited_answer \o cited_text)

\* handlers.py:495-513: the loop, from citation number idx (0-based) on, with
\* the answer built so far.  The result is [value, err].
RECURSIVE CiteLoop(_, _, _, _)
CiteLoop(cleaned_text, citations, idx, fully_cited_answer) ==
    IF idx >= Len(citations) THEN [value |-> fully_cited_answer, err |-> FALSE]
    ELSE LET citation == citations[idx + 1]
         IN  IF ~HasSpan(citation) THEN [value |-> fully_cited_answer, err |-> TRUE]
             ELSE LET start   == SpanOf(citation).start - (idx + 1)
                      end     == SpanOf(citation).end - (idx + 2) + 4
                      ref_url == RefUrl(citation)
                      cited_text == Slice(cleaned_text, start, end)
                                      \o << " ", "[" >> \o ref_url \o << "]", " " >>
                  IN  IF ref_url = Empty
                      THEN [value |-> cleaned_text, err |-> FALSE]
                      ELSE CiteLoop(cleaned_text, citations, idx + 1,
                                    IF idx = 0
                                    THEN Slice(cleaned_text, 0, start) \o cited_text
                                    ELSE fully_cited_answer \o cited_text)

\* handlers.py:478-515.  The result is [value, err].
make_fully_cited_answer(orig_answer, event) ==
    LET citations == CitationsOf(event)
    IN  IF citations = Empty THEN [value |-> orig_answer, err |-> FALSE]
        ELSE CiteLoop(StripMarkers(orig_answer), citations, 0, << >>)

\* handlers.py:59-64
get_reference_uri(reference) ==
    LET location == Get(reference, "location", Empty)
    IN  IF "s3Location" \in DOMAIN location
        THEN Get(location.s3Location, "uri", Empty)
        ELSE Empty

\* handlers.py:39-56
display_citation_references(references, c) ==
    IF \E i \in DOMAIN references : get_reference_uri(references[i]) # Empty
    THEN Emit(c, "agent-citation-references")
    ELSE c

\* handlers.py:24-36
RECURSIVE handle_citations(_, _)
handle_citations(citations, c) ==
    IF citations = Empty THEN c
    ELSE LET citation == Head(citations)
             retrieved_references == Get(citation, "retrievedReferences", Empty)
             text == Get(Get(Get(citation, "generatedResponsePart", Empty),
                             "textResponsePart", Empty), "text", Empty)
             c1 == IF retrieved_references # Empty /\ text # Empty
                   THEN display_citation_references(retrieved_references, c)
                   ELSE c
         IN  handle_citations(Tail(citations), c1)

-----------------------------------------------------------------------------
(* handlers.py: media.  A MIME type (and an ARN) is the list of its         *)
(* "/"-separated segments.  bytes are [utf8 |-> text] when they are the     *)
(* UTF-8 encoding of text and [raw |-> id] when they are not valid UTF-8.   *)

IsBytes(v) == "utf8" \in DOMAIN v \/ "raw" \in DOMAIN v

\* bytes.decode("utf-8"): [value, err]
Decode(b) ==
    IF "utf8" \in DOMAIN b THEN [value |-> b.utf8, err |-> FALSE]
                           ELSE [value |-> << >>, err |-> TRUE]

\* f.get("type", "").startswith("image/")
IsImageType(f) ==
    LET t == Get(f, "type", << "" >>) IN Len(t) >= 2 /\ t[1] = "image"

\* f.get("type", "") == "text/html"
IsHtmlType(f) == Get(f, "type", << "" >>) = << "text", "html" >>

\* handlers.py:409-415
RECURSIVE ImagesIn(_)
ImagesIn(files_list) ==
    IF files_list = Empty THEN << >>
    ELSE (IF IsImageType(Head(files_list)) THEN << Head(files_list) >> ELSE << >>)
         \o ImagesIn(Tail(files_list))

get_images(files_event) == ImagesIn(Get(files_event, "files", Empty))

\* handlers.py:443-449
RECURSIVE HtmlIn(_)
HtmlIn(files_list) ==
    IF files_list = Empty THEN << >>
    ELSE (IF IsHtmlType(Head(files_list)) THEN << Head(files_list) >> ELSE << >>)
         \o HtmlIn(Tail(files_list))

get_html_files(files_event) == HtmlIn(Get(files_event, "files", Empty))

\* handlers.py:427-430 keeping the first file of each name
UniqueByNameFirst(files) ==
    LET RECURSIVE From(_)
        From(i) == IF i > Len(files) THEN << >>
                   ELSE (IF Get(files[i], "name", "") # ""
                            /\ \A j \in 1..(i - 1) : Get(files[j], "name", "") # files[i].name
                         THEN << files[i] >> ELSE << >>) \o From(i + 1)
    IN  From(1)

\* handlers.py:427-430 and 461-464: the values of the dict built by
\* unique[filename] = file, in the dict's (first insertion) order
UniqueByName(files) ==
    LET named(i)  == Get(files[i], "name", "") # ""
        first(i)  == named(i) /\ \A j \in 1..(i - 1) : Get(files[j], "name", "") # files[i].name
        last(nm)  == CHOOSE i \in DOMAIN files :
                        /\ Get(files[i], "name", "") = nm
                        /\ \A j \in (i + 1)..Len(files) : Get(files[j], "name", "") # nm
        RECURSIVE From(_)
        From(i) == IF i > Len(files) THEN << >>
                   ELSE (IF first(i) THEN << files[last(files[i].name)] >> ELSE << >>)
                        \o From(i + 1)
    IN  From(1)

\* handlers.py:418-440
display_images(files) ==
    LET RECURSIVE Each(_)
        Each(fs) ==
            IF fs = Empty THEN << >>
            ELSE (IF IsBytes(Get(Head(fs), "bytes", NoneValue))
                  THEN << [name |-> Head(fs).name, bytes |-> Head(fs).bytes] >>
                  ELSE << >>) \o Each(Tail(fs))
    IN  Each(UniqueByName(files))

\* handlers.py:466-473 without the try: the pass ends at the first file whose
\* bytes do not decode
display_html_files_stopping(files) ==
    LET RECURSIVE Each(_)
        Each(fs) ==
            IF fs = Empty THEN << >>
            ELSE IF IsBytes(Get(Head(fs), "bytes", NoneValue))
                 THEN (IF Decode(Head(fs).bytes).err THEN << >>
                       ELSE << [name |-> Head(fs).name,
                                content |-> Decode(Head(fs).bytes).value] >>
                            \o Each(Tail(fs)))
                 ELSE Each(Tail(fs))
    IN  Each(UniqueByName(files))

\* handlers.py:452-475: a file whose bytes do not decode is dropped
display_html_files(files) ==
    LET RECURSIVE Each(_)
        Each(fs) ==
            IF fs = Empty THEN << >>
            ELSE (IF IsBytes(Get(Head(fs), "bytes", NoneValue))
                     /\ ~Decode(Head(fs).bytes).err
                  THEN << [name |-> Head(fs).name,
                           content |-> Decode(Head(fs).bytes).value] >>
                  ELSE << >>) \o Each(Tail(fs))
    IN  Each(UniqueByName(files))

-----------------------------------------------------------------------------
(* agent.py:79-159 Agent.invoke_agent.  The driver state d carries the     *)
(* locals output_text, image_files, html_files, stats, the span (events)   *)
(* and err; the handlers above read and write its stats, events and err.   *)

\* agent.py:90
FallbackAnswer ==
    << "U", "n", "f", "o", "r", "t", "u", "n", "a", "t", "e", "l", "y", ",", " ", "I", "'", "m", " ", "n", "o", "t", " ", "a", "b", "l", "e", " ", "t", "o", " ", "a", "n", "s", "w", "e", "r", " ", "t", "h", "a", "t", " ", "q", "u", "e", "s", "t", "i", "o", "n", "." >>

\* truthiness of chunk.get("bytes")
IsNonEmptyBytes(v) == IsBytes(v) /\ v # [utf8 |-> << >>]

\* agent.py:131 with "output_text +=": the chunks are appended
ChunkPartAppending(event, d) ==
    IF "chunk" \notin DOMAIN event THEN d
    ELSE LET bytes_data == Get(event.chunk, "bytes", NoneValue)
         IN  IF IsNonEmptyBytes(bytes_data)
             THEN LET decoded == Decode(bytes_data)
                      cited == make_fully_cited_answer(decoded.value, event)
                  IN  IF decoded.err \/ cited.err THEN Raise(d)
                      ELSE [d EXCEPT !.output_text = @ \o cited.value]
             ELSE d

\* agent.py:123-132
ChunkPart(event, d) ==
    IF "chunk" \notin DOMAIN event THEN d
    ELSE LET chunk == event.chunk
             attribution == Get(chunk, "attribution", Empty)
             d1 == IF attribution # Empty
                   THEN handle_citations(Get(attribution, "citations", Empty), d)
                   ELSE d
             bytes_data == Get(chunk, "bytes", NoneValue)
             answer(x) ==
                 IF IsNonEmptyBytes(bytes_data)
                 THEN LET decoded == Decode(bytes_data)
                      IN  IF decoded.err THEN Raise(x)
                          ELSE LET cited == make_fully_cited_answer(decoded.value, event)
                               IN  IF cited.err
                                   THEN Raise([x EXCEPT !.output_text = decoded.value])
                                   ELSE [x EXCEPT !.output_text = cited.value]
                 ELSE x
         IN  Then(d1, answer)

\* agent.py:134-138
FilesPart(event, d) ==
    IF "files" \notin DOMAIN event THEN d
    ELSE [d EXCEPT !.image_files = @ \o get_images(event.files),
                   !.html_files  = @ \o get_html_files(event.files)]

\* agent.py:140-143
TracePart(event, lookup, d) ==
    IF "trace" \notin DOMAIN event THEN d
    ELSE IF "trace" \notin DOMAIN event.trace THEN Raise(d)
         ELSE process_trace_event(event.trace.trace, event.trace, lookup, d)

\* agent.py:120-143: one iteration of the for loop
ProcessEvent(event, lookup, d) ==
    LET files(x) == FilesPart(event, x)
        trace(x) == TracePart(event, lookup, x)
    IN  Then(Then(ChunkPart(event, d), files), trace)

\* agent.py:90 with output_text = ""
InitialDriverEmptyAnswer ==
    [output_text |-> << >>, image_files |-> << >>, html_files |-> << >>,
     stats |-> AgentStats, events |-> << >>, err |-> FALSE]

\* agent.py:89-92
InitialDriver ==
    [output_text |-> FallbackAnswer, image_files |-> << >>, html_files |-> << >>,
     stats |-> AgentStats, events |-> << >>, err |-> FALSE]

\* the loop over a whole stream of [event, lookup] entries, stopped by the
\* first exception
RECURSIVE RunFrom(_, _)
RunFrom(d, entries) ==
    IF entries = Empty \/ d.err THEN d
    ELSE RunFrom(ProcessEvent(Head(entries).event, Head(entries).lookup, d), Tail(entries))

Run(entries) == RunFrom(InitialDriver, entries)

\* whether handling the event calls bedrock-agent get_agent (handlers.py:570-577)
CallsGetAgent(event) ==
    /\ "trace" \in DOMAIN event
    /\ "trace" \in DOMAIN event.trace
    /\ "callerChain" \in DOMAIN event.trace
    /\ Len(event.trace.callerChain) > 1
    /\ "agentAliasArn" \in DOMAIN event.trace.callerChain[2]
    /\ Len(event.trace.callerChain[2].agentAliasArn) >= 2
    /\ event.trace.callerChain[2].agentAliasArn[2] # ""

\* what get_agent may do when it is called: raise, or return the agent's name
LookupOutcomes(event) ==
    IF CallsGetAgent(event)
    THEN {[called |-> TRUE, raises |-> TRUE],
          [called |-> TRUE, raises |-> FALSE, agentName |-> "TrialsAgent"]}
    ELSE {[called |-> FALSE, raises |-> FALSE]}

\* no tool call is under way
NoToolCall == [op |-> "none"]

\* agent.py:89-92 in the second call: its locals are created by that call
InitialPeer ==
    [pc |-> "running", d |-> InitialDriver, stored |-> << >>, history |-> << >>]

Init ==
    /\ pc = "running"
    /\ output_text = InitialDriver.output_text
    /\ stats = InitialDriver.stats
    /\ image_files = InitialDriver.image_files
    /\ html_files = InitialDriver.html_files
    /\ span_events = InitialDriver.events
    /\ stored = << >>
    /\ history = << >>
    /\ calls = << >>
    /\ peer = InitialPeer
    /\ tool = NoToolCall

\* the stream yields event: agent.py:120-143
Consume(event, lookup) ==
    /\ pc = "running"
    /\ LET d == ProcessEvent(event, lookup,
                     [output_text |-> output_text, image_files |-> image_files,
                      html_files |-> html_files, stats |-> stats,
                      events |-> span_events, err |-> FALSE])
       IN  /\ output_text' = d.output_text
           /\ image_files' = d.image_files
           /\ html_files' = d.html_files
           /\ stats' = d.stats
           /\ span_events' = d.events
           /\ pc' = IF d.err THEN "aborted" ELSE "running"
    /\ history' = Append(history, [event |-> event, lookup |-> lookup])
    /\ UNCHANGED << stored, calls, peer, tool >>

\* agent.py:145-159 with add_assistant_message called before the generation
\* is emitted
FinishStoreFirst ==
    /\ pc = "running"
    /\ span_events' = Append(span_events,
                             [name |-> "agent-costs", level |-> "DEFAULT",
                              usage_details |-> [input |-> stats.input_tokens,
                                                 output |-> stats.output_tokens]])
    /\ stored' = << [content |-> output_text,
                     images |-> display_images(image_files),
                     html_files |-> display_html_files(html_files)] >>
    /\ calls' = << "display_images", "display_html_files", "add_assistant_message",
                   "generation" >>
    /\ pc' = "done"
    /\ UNCHANGED << output_text, stats, image_files, html_files, history, peer, tool >>

\* the stream is exhausted: agent.py:145-159
Finish ==
    /\ pc = "running"
    /\ span_events' = Append(span_events,
                             [name |-> "agent-costs", level |-> "DEFAULT",
                              usage_details |-> [input |-> stats.input_tokens,
                                                 output |-> stats.output_tokens]])
    /\ stored' = << [content |-> output_text,
                     images |-> display_images(image_files),
                     html_files |-> display_html_files(html_files)] >>
    /\ calls' = << "display_images", "display_html_files", "generation",
                   "add_assistant_message" >>
    /\ pc' = "done"
    /\ UNCHANGED << output_text, stats, image_files, html_files, history, peer, tool >>

\* agent.py:89 with stats kept in one module-level AgentStats: the second
\* call works on the Stats of the first
PeerDriverSharedStats(p, shared_stats) == [p.d EXCEPT !.stats = shared_stats]

\* agent.py:89-92: the locals the second call works on are its own
PeerDriver(p, shared_stats) == p.d

\* the stream of the second call yields event: agent.py:120-143
ConsumePeer(event, lookup) ==
    /\ peer.pc = "running"
    /\ LET d == ProcessEvent(event, lookup, [PeerDriver(peer, stats) EXCEPT !.err = FALSE])
       IN  peer' = [peer EXCEPT !.d = d,
                                !.pc = IF d.err THEN "aborted" ELSE "running",
                                !.history = Append(@, [event |-> event, lookup |-> lookup])]
    /\ UNCHANGED << pc, output_text, stats, image_files, html_files, span_events,
                    stored, history, calls, tool >>

\* the stream of the second call is exhausted: agent.py:145-159
FinishPeer ==
    /\ peer.pc = "running"
    /\ peer' = [peer EXCEPT
                  !.d.events = Append(@, [name |-> "agent-costs", level |-> "DEFAULT",
                                          usage_details |->
                                              [input |-> peer.d.stats.input_tokens,
                                               output |-> peer.d.stats.output_tokens]]),
                  !.stored = << [content |-> peer.d.output_text,
                                 images |-> display_images(peer.d.image_files),
                                 html_files |-> display_html_files(peer.d.html_files)] >>,
                  !.pc = "done"]
    /\ UNCHANGED << pc, output_text, stats, image_files, html_files, span_events,
                    stored, history, calls, tool >>

\* the stream itself raises while it is iterated (agent.py:120); the
\* exception leaves invoke_agent and is caught in app.py:109
TransportFailure ==
    /\ pc = "running"
    /\ pc' = "transport_failed"
    /\ UNCHANGED << output_text, stats, image_files, html_files, span_events,
                    stored, history, calls, peer, tool >>

\* the caller cancels or times out while the stream is consumed: a read
\* timeout raised by the stream, or the script runner stopping the script
\* inside a handler.  invoke_agent (agent.py:120-159) has no handler for
\* either: the call is unwound and lines 145-159 are not run.
Cancel ==
    /\ pc = "running"
    /\ pc' = "cancelled"
    /\ UNCHANGED << output_text, stats, image_files, html_files, span_events,
                    stored, history, calls, peer, tool >>

-----------------------------------------------------------------------------
(* The events the stream may yield (spec.md section 6: chunk, files, trace) *)

\* answer texts
TextAnswer   == << "A", "n", "s", "w", "e", "r", ".", " ", "<", "s", "o", "u", "r", "c", "e", "s", ">", "<", "/", "s", "o", "u", "r", "c", "e", "s", ">" >>
TextMarker   == << "<", "s", "o", "u", "r", "c", "e", "s", ">", "<", "/", "s", "o", "u", "r", "c", "e", "s", ">" >>
TextFacts    == << "I", "n", "t", "r", "o", ".", " ", "<", "s", "o", "u", "r", "c", "e", "s", ">", "<", "R", "E", "D", "A", "C", "T", "E", "D", ">", "<", "/", "s", "o", "u", "r", "c", "e", "s", ">", "f", "a", "c", "t", " ", "o", "n", "e", ".", " ", "f", "a", "c", "t", " ", "t", "w", "o", "." >>
TextNumbered == << "O", "n", "e", ".", "\n", "\n", "<", "s", "o", "u", "r", "c", "e", "s", ">", "\n", "1", "2", "\n", "<", "/", "s", "o", "u", "r", "c", "e", "s", ">", "\n", "\n", "T", "w", "o", "." >>

UrlA == << "s", "3", ":", "/", "/", "a" >>
UrlB == << "s", "3", ":", "/", "/", "b" >>

Span(a, b) == [generatedResponsePart |->
                  [textResponsePart |-> [span |-> [start |-> a, end |-> b],
                                         text |-> << "x" >>]]]

\* a citation of the span [a, b) with one retrieved reference at url
Citation(a, b, url) ==
    [generatedResponsePart |-> Span(a, b).generatedResponsePart,
     retrievedReferences |-> << [location |-> [s3Location |-> [uri |-> url]]] >>]

\* a citation without retrieved references, and one without span
CitationNoRefs(a, b) == Span(a, b)
CitationNoSpan(url) ==
    [retrievedReferences |-> << [location |-> [s3Location |-> [uri |-> url]]] >>]

Chunk(text, citations) ==
    [chunk |-> [bytes |-> [utf8 |-> text], attribution |-> [citations |-> citations]]]

ChunkEvents ==
    { [chunk |-> [bytes |-> [utf8 |-> TextAnswer]]],
      Chunk(TextFacts, << Citation(8, 16, UrlA) >>),
      Chunk(TextNumbered, << Citation(1, 5, UrlA), Citation(8, 12, UrlB) >>),
      Chunk(TextMarker, << CitationNoRefs(0, 0) >>),
      Chunk(TextFacts, << CitationNoSpan(UrlA) >>),
      [chunk |-> [attribution |-> [citations |-> << Citation(8, 16, UrlB) >>]]],
      [chunk |-> [bytes |-> [utf8 |-> << >>]]] }

\* caller chains
ArnSub    == << "arn:aws:bedrock:eu-central-1:1:agent-alias", "SUBAGENT", "ALIAS" >>
ChainSupervisor == << [agentAliasArn |-> << "arn:aws:bedrock:eu-central-1:1:agent-alias",
                                            "SUPERVISOR", "ALIAS" >>] >>
ChainSubAgent   == ChainSupervisor \o << [agentAliasArn |-> ArnSub] >>

\* trace part of an event: the trace record and, when given, its caller chain
Trace(record) == [trace |-> [trace |-> record]]
TraceBy(record, chain) == [trace |-> [trace |-> record, callerChain |-> chain]]

Usage(i, o) == [usage |-> [inputTokens |-> i, outputTokens |-> o]]
RawResponse == [content |-> [parse |-> "error"]]

ModelInput == [text |-> << "p" >>]

Rationale == [rationale |-> [text |-> << "r" >>]]

\* orchestration records: model output with usage only, complete, and without
\* metadata; a rationale without text
OrchestrationRecords ==
    { [modelInvocationOutput |-> [metadata |-> Usage(10, 5)]],
      [modelInvocationOutput |-> [metadata |-> Usage(3, 2), rawResponse |-> RawResponse]],
      [modelInvocationOutput |-> [rawResponse |-> RawResponse]],
      [rationale |-> Empty] }

\* a pre-processing record without model output
PreProcessingRecords == { [modelInvocationInput |-> ModelInput] }

\* records that carry none of the six category keys
KeylessRecords == { Empty, [customTrace |-> Empty] }

TraceEvents ==
    { Trace([orchestrationTrace |-> r]) : r \in OrchestrationRecords }
    \cup { Trace([preProcessingTrace |-> r]) : r \in PreProcessingRecords }
    \cup { TraceBy([orchestrationTrace |-> Rationale], ChainSupervisor) }
    \cup { Trace(Empty), TraceBy([customTrace |-> Empty], ChainSubAgent) }

\* files events
ImageFile(name, id) == [name |-> name, type |-> << "image", "png" >>, bytes |-> [raw |-> id]]
HtmlFile(name, text) == [name |-> name, type |-> << "text", "html" >>, bytes |-> [utf8 |-> text]]

FilesEvents ==
    { [files |-> [files |-> << ImageFile("plot.png", "1"), HtmlFile("report.html", << "h" >>) >>]] }

Events == ChunkEvents \cup TraceEvents \cup FilesEvents

\* reasoning steps of the supervisor (caller chain of length 1) and of a
\* sub-agent (length 2).  The step counter does not read the agent name, and
\* the streams of SpecSteps are long: the directory answers there (both
\* outcomes of the lookup are in Spec).
SupervisorStep == TraceBy([orchestrationTrace |-> Rationale], ChainSupervisor)
SubAgentStep   == TraceBy([orchestrationTrace |-> Rationale], ChainSubAgent)

StepEntries ==
    { [event |-> SupervisorStep, lookup |-> [called |-> FALSE, raises |-> FALSE]],
      [event |-> SubAgentStep,
       lookup |-> [called |-> TRUE, raises |-> FALSE, agentName |-> "TrialsAgent"]] }

-----------------------------------------------------------------------------
(* Specifications *)

MaxEvents == 3      \* longest stream of Spec
MaxSteps  == 12     \* longest stream of SpecSteps

ConsumeEvent ==
    /\ Len(history) < MaxEvents
    /\ \E event \in Events : \E lookup \in LookupOutcomes(event) : Consume(event, lookup)

Next == ConsumeEvent \/ Finish \/ TransportFailure

Spec == Init /\ [][Next]_vars

ConsumeStep ==
    /\ Len(history) < MaxSteps
    /\ \E entry \in StepEntries : Consume(entry.event, entry.lookup)

NextSteps == ConsumeStep \/ Finish

SpecSteps == Init /\ [][NextSteps]_vars

-----------------------------------------------------------------------------
(* Reading the history *)

BytesOf(event) == Get(Get(event, "chunk", Empty), "bytes", NoneValue)

\* positions of the consumed events that carried non-empty chunk.bytes
BytesPositions == { i \in DOMAIN history : IsNonEmptyBytes(BytesOf(history[i].event)) }

LastBytesPosition == CHOOSE i \in BytesPositions : \A j \in BytesPositions : j <= i

\* the answer that a chunk event alone produces
AnswerOf(event) == make_fully_cited_answer(Decode(BytesOf(event)).value, event).value

CategoryKeys == { "routingClassifierTrace", "failureTrace", "guardrailTrace",
                  "preProcessingTrace", "orchestrationTrace", "postProcessingTrace" }

\* a trace event whose record carries none of the six category keys (and
\* whose caller chain, when present, has an agentAliasArn in every entry)
IsKeylessTraceEvent(event) ==
    /\ DOMAIN event = {"trace"}
    /\ "trace" \in DOMAIN event.trace
    /\ DOMAIN event.trace.trace \cap CategoryKeys = {}
    /\ \A i \in DOMAIN Get(event.trace, "callerChain", Empty) :
          /\ "agentAliasArn" \in DOMAIN event.trace.callerChain[i]
          /\ Len(event.trace.callerChain[i].agentAliasArn) >= 2

RemoveAt(seq, i) == SubSeq(seq, 1, i - 1) \o SubSeq(seq, i + 1, Len(seq))

\* a rationale record that reaches handle_reasoning_step, by caller-chain length
IsRationale(event) ==
    /\ "trace" \in DOMAIN event
    /\ "trace" \in DOMAIN event.trace
    /\ "preProcessingTrace" \notin DOMAIN event.trace.trace
    /\ "orchestrationTrace" \in DOMAIN event.trace.trace
    /\ "rationale" \in DOMAIN event.trace.trace.orchestrationTrace
    /\ "text" \in DOMAIN event.trace.trace.orchestrationTrace.rationale

ChainLength(event) == Len(Get(event.trace, "callerChain", Empty))

IsSupervisorStep(event) == IsRationale(event) /\ ChainLength(event) <= 1
IsSubAgentStep(event)   == IsRationale(event) /\ ChainLength(event) > 1

NSupervisorSteps == Cardinality({ i \in DOMAIN history : IsSupervisorStep(history[i].event) })
NSubAgentSteps   == Cardinality({ i \in DOMAIN history : IsSubAgentStep(history[i].event) })

\* the step counter after the first n events of the history
CounterAfter(n) == Run(SubSeq(history, 1, n)).stats.step_counter

-----------------------------------------------------------------------------
(* Claims *)

\* C1: when the stream is consumed to exhaustion, the answer returned is
\* make_fully_cited_answer applied to the decoded bytes of the LAST event that
\* carried non-empty chunk.bytes, with that event's own citations; earlier
\* chunks have no effect (each chunk replaces, never appends).
C1_AnswerIsLastChunk ==
    (pc = "done" /\ BytesPositions # {})
        => /\ output_text = AnswerOf(history[LastBytesPosition].event)
           /\ stored[1].content = output_text

\* a finished stream with two chunks carrying bytes whose answers differ
C1_Witness ==
    /\ pc = "done"
    /\ \E i \in BytesPositions :
          /\ i < LastBytesPosition
          /\ AnswerOf(history[i].event) # AnswerOf(history[LastBytesPosition].event)
          /\ CitationsOf(history[i].event) # Empty
          /\ CitationsOf(history[LastBytesPosition].event) # Empty

\* C2: when the stream is exhausted without any event carrying chunk.bytes,
\* the answer returned and stored through add_assistant_message is the fixed
\* fallback string, whatever trace and files events the stream held.
C2_FallbackWithoutBytes ==
    (pc = "done" /\ BytesPositions = {})
        => /\ output_text = FallbackAnswer
           /\ stored = << [content |-> FallbackAnswer,
                           images |-> display_images(image_files),
                           html_files |-> display_html_files(html_files)] >>

\* a finished stream without bytes that held a trace event, a files event and
\* a chunk without bytes
C2_Witness ==
    /\ pc = "done"
    /\ BytesPositions = {}
    /\ \E i, j, k \in DOMAIN history :
          /\ "trace" \in DOMAIN history[i].event
          /\ "files" \in DOMAIN history[j].event
          /\ "chunk" \in DOMAIN history[k].event

\* C3: after any stream consumed to exhaustion the answer returned is never
\* the empty string.
C3_AnswerNeverEmpty ==
    pc = "done" => (output_text # << >> /\ stored[1].content # << >>)

\* C4: when the citation list of a chunk is empty or absent,
\* make_fully_cited_answer returns the input text with the three marker
\* patterns stripped and nothing else changed.
C4_NoCitationsStripsMarkers ==
    (pc = "done" /\ BytesPositions # {}
       /\ CitationsOf(history[LastBytesPosition].event) = Empty)
        => output_text =
              StripMarkers(Decode(BytesOf(history[LastBytesPosition].event)).value)

\* C5: the stream [chunk "Answer. <sources></sources>" without citations,
\* orchestration trace whose model output has only metadata.usage = {10, 5}]
\* completes without error with answer "Answer. ", inputTokens 10 and
\* outputTokens 5.
ScenarioStream ==
    << [chunk |-> [bytes |-> [utf8 |-> TextAnswer]]],
       Trace([orchestrationTrace |->
                 [modelInvocationOutput |-> [metadata |-> Usage(10, 5)]]]) >>

C5_EndToEndScenario ==
    (Len(history) = 2 /\ \A i \in 1..2 : history[i].event = ScenarioStream[i])
        => /\ pc \in {"running", "done"}
           /\ output_text = << "A", "n", "s", "w", "e", "r", ".", " " >>
           /\ stats.input_tokens = 10
           /\ stats.output_tokens = 5

\* records missing sub-keys a handler expects: a model output without
\* metadata or without rawResponse, a pre-processing record without model
\* output, a rationale without text
MalformedRecords ==
    { [orchestrationTrace |-> [modelInvocationOutput |-> [rawResponse |-> RawResponse]]],
      [orchestrationTrace |-> [modelInvocationOutput |-> [metadata |-> Usage(10, 5)]]],
      [preProcessingTrace |-> [modelInvocationInput |-> ModelInput]],
      [orchestrationTrace |-> [rationale |-> Empty]] }

\* C6: a single malformed event never aborts the stream: the driver skips
\* the missing aspect and goes on with the later events.
C6_MalformedEventDoesNotAbort ==
    (history # << >> /\ history[Len(history)].event \in { Trace(r) : r \in MalformedRecords })
        => pc # "aborted"

\* C7: inserting, at any position of any stream, a trace record that carries
\* none of the six category keys yields the same Stats as the stream without
\* it: the run over the history with such a record removed has the Stats of
\* the run over the history (and stops by an exception exactly when it does).
C7_KeylessRecordLeavesStats ==
    \A i \in DOMAIN history :
        IsKeylessTraceEvent(history[i].event)
            => LET without == Run(RemoveAt(history, i))
               IN  /\ without.stats = stats
                   /\ without.err = (pc = "aborted")

\* a keyless record, handled under a sub-agent chain, followed by a record
\* that adds usage to Stats
C7_Witness ==
    /\ Len(history) >= 2
    /\ \E i \in DOMAIN history :
          /\ IsKeylessTraceEvent(history[i].event)
          /\ Len(Get(history[i].event.trace, "callerChain", Empty)) > 1
          /\ i < Len(history)
    /\ stats.input_tokens > 0

\* C8: from a fresh Stats, after N supervisor reasoning steps and no
\* sub-agent step, stepCounter is exactly N, without fractional part.
C8_SupervisorOnlyCountsSteps ==
    NSubAgentSteps = 0 => stats.step_counter = FromInt(NSupervisorSteps)

C8_Witness == NSubAgentSteps = 0 /\ NSupervisorSteps >= 5 /\ pc = "running"

\* C9: a sub-agent step at a whole counter k gives k + 0.1, and a supervisor
\* step right after it gives k + 1 (3 -> 3.1 -> 4, never 4.1).
C9_SubAgentThenSupervisor ==
    LET n == Len(history)
    IN  /\ (n >= 1 /\ IsSubAgentStep(history[n].event) /\ IsWhole(CounterAfter(n - 1)))
              => stats.step_counter = FAdd(CounterAfter(n - 1), Tenth)
        /\ (n >= 2 /\ IsSupervisorStep(history[n].event)
                   /\ IsSubAgentStep(history[n - 1].event)
                   /\ IsWhole(CounterAfter(n - 2)))
              => /\ stats.step_counter = FromInt(Floor(CounterAfter(n - 2)) + 1)
                 /\ Floor(CounterAfter(n - 1)) = Floor(CounterAfter(n - 2))

\* the counter went 3 -> 3.1 -> 4
C9_Witness ==
    LET n == Len(history)
    IN  /\ n >= 5
        /\ IsSupervisorStep(history[n].event)
        /\ IsSubAgentStep(history[n - 1].event)
        /\ CounterAfter(n - 2) = FromInt(3)
        /\ stats.step_counter = FromInt(4)

\* C10: within one invocation stepCounter never decreases, whatever the
\* interleaving of supervisor and sub-agent reasoning steps.
C10_StepCounterMonotonic ==
    [][FLeq(stats.step_counter, stats'.step_counter)]_vars

\* supervisor steps after runs of sub-agent steps, one of them of ten steps
C10_Witness ==
    /\ NSupervisorSteps >= 2
    /\ NSubAgentSteps >= 10
    /\ IsSupervisorStep(history[Len(history)].event)
    /\ IsSubAgentStep(history[1].event)

-----------------------------------------------------------------------------
(* Chunk events for the citation loop: citation lists sorted by span start, *)
(* with and without reference URLs                                          *)

\* a citation whose first reference has no URL
CitationNoUri(a, b) ==
    [generatedResponsePart |-> Span(a, b).generatedResponsePart,
     retrievedReferences |-> << [location |-> [s3Location |-> Empty]] >>]

\* an empty-sources tag inside the pieces of a redacted-sources tag
TextNested == << "a", "<", "s", "o", "u", "r", "c", "e", "s", ">", "<", "s", "o", "u", "r", "c", "e", "s", ">", "<", "/", "s", "o", "u", "r", "c", "e", "s", ">", "<", "R", "E", "D", "A", "C", "T", "E", "D", ">", "<", "/", "s", "o", "u", "r", "c", "e", "s", ">", "b" >>

CiteEvents ==
    { Chunk(TextFacts, << Citation(8, 16, UrlA), CitationNoUri(18, 26) >>),
      Chunk(TextFacts, << CitationNoUri(8, 16), Citation(18, 26, UrlB) >>),
      Chunk(TextFacts, << Citation(8, 16, UrlA), Citation(18, 26, UrlB) >>),
      Chunk(TextFacts, << Citation(8, 16, UrlA), Citation(18, 24, UrlB),
                          CitationNoRefs(25, 26) >>),
      Chunk(TextFacts, << Citation(8, 16, UrlB) >>),
      Chunk(TextFacts, << Citation(1, 4, UrlA), Citation(9, 12, UrlB) >>),
      Chunk(TextNested, << Citation(1, 29, UrlA) >>),
      Chunk(TextNested, << >>),
      Chunk(TextNumbered, << Citation(1, 5, UrlA), Citation(8, 12, UrlB) >>),
      Chunk(TextMarker, << CitationNoRefs(0, 0) >>),
      [chunk |-> [bytes |-> [utf8 |-> TextAnswer]]] }

MaxChunks == 2      \* longest stream of SpecCite

ConsumeChunk ==
    /\ Len(history) < MaxChunks
    /\ \E event \in CiteEvents : Consume(event, [called |-> FALSE, raises |-> FALSE])

NextCite == ConsumeChunk \/ Finish

SpecCite == Init /\ [][NextCite]_vars

\* index (1-based) of the first citation without reference URL, 0 when every
\* citation has one
FirstWithoutUrl(citations) ==
    IF \E i \in DOMAIN citations : RefUrl(citations[i]) = Empty
    THEN CHOOSE i \in DOMAIN citations :
            /\ RefUrl(citations[i]) = Empty
            /\ \A j \in 1..(i - 1) : RefUrl(citations[j]) # Empty
    ELSE 0

\* the text with the citations before citation i inlined, cut at the adjusted
\* start of citation i
TruncatedAt(cleaned_text, citations, i) ==
    IF i = 1 THEN Slice(cleaned_text, 0, SpanOf(citations[1]).start - 1)
    ELSE CiteLoop(cleaned_text, SubSeq(citations, 1, i - 1), 0, << >>).value

\* C11: when a citation has no reference URL, no later citation is applied
\* and the returned text is cut at that citation's adjusted start: it keeps
\* the citations inlined before it and nothing from that position onward.
C11_MissingUrlTruncates ==
    (pc = "done" /\ BytesPositions # {})
        => LET event     == history[LastBytesPosition].event
               citations == CitationsOf(event)
               cleaned   == StripMarkers(Decode(BytesOf(event)).value)
               i         == FirstWithoutUrl(citations)
           IN  (i > 0 /\ \A j \in 1..i : HasSpan(citations[j]))
                   => output_text = TruncatedAt(cleaned, citations, i)

\* a citation list whose citations all have a span, in the order of span start
SortedByStart(citations) ==
    /\ \A i \in DOMAIN citations : HasSpan(citations[i])
    /\ \A i, j \in DOMAIN citations :
          i < j => SpanOf(citations[i]).start <= SpanOf(citations[j]).start

\* C12: for every text and every citation list sorted by span start, the
\* empty list included, the output of make_fully_cited_answer holds no marker
\* pattern: stripping the markers from it again changes nothing.
C12_OutputHasNoMarkers ==
    (pc = "done" /\ BytesPositions # {}
       /\ SortedByStart(CitationsOf(history[LastBytesPosition].event)))
        => StripMarkers(output_text) = output_text

-----------------------------------------------------------------------------
(* Files events: names repeated within and across events, a file without   *)
(* name, a file without bytes, a file of another type, HTML bytes that are  *)
(* not valid UTF-8                                                          *)

HtmlRaw(name, id) == [name |-> name, type |-> << "text", "html" >>, bytes |-> [raw |-> id]]

FilesOf(files_list) == [files |-> [files |-> files_list]]

FilesAlphabet ==
    { FilesOf(<< ImageFile("plot.png", "1"), HtmlFile("report.html", << "h" >>) >>),
      FilesOf(<< ImageFile("plot.png", "2"), ImageFile("chart.png", "3"),
                 ImageFile("plot.png", "4") >>),
      FilesOf(<< HtmlFile("report.html", << "g" >>), HtmlRaw("bad.html", "5") >>),
      FilesOf(<< HtmlRaw("report.html", "6"), HtmlFile("late.html", << "l" >>) >>),
      FilesOf(<< [type |-> << "text", "html" >>, bytes |-> [utf8 |-> << "n" >>]],
                 [name |-> "plot.png", type |-> << "image", "png" >>],
                 [name |-> "doc.pdf", type |-> << "application", "pdf" >>,
                  bytes |-> [raw |-> "7"]] >>),
      [files |-> Empty] }

MaxFilesEvents == 3      \* longest stream of SpecFiles

ConsumeFiles ==
    /\ Len(history) < MaxFilesEvents
    /\ \E event \in FilesAlphabet : Consume(event, [called |-> FALSE, raises |-> FALSE])

NextFiles == ConsumeFiles \/ Finish

SpecFiles == Init /\ [][NextFiles]_vars

\* every file of every files event of the first n events of the history, in
\* stream order
RECURSIVE FilesUpTo(_)
FilesUpTo(n) ==
    IF n = 0 THEN << >>
    ELSE FilesUpTo(n - 1)
         \o (IF "files" \in DOMAIN history[n].event
             THEN Get(history[n].event.files, "files", Empty) ELSE << >>)

AllImages == ImagesIn(FilesUpTo(Len(history)))
AllHtml   == HtmlIn(FilesUpTo(Len(history)))

\* position of the last file called nm in a list of files
LastNamed(files, nm) ==
    CHOOSE i \in DOMAIN files :
        /\ Get(files[i], "name", "") = nm
        /\ \A j \in DOMAIN files : Get(files[j], "name", "") = nm => j <= i

NamesOnce(entries) ==
    \A i, j \in DOMAIN entries : entries[i].name = entries[j].name => i = j

\* C13: after any stream the image list and the HTML list handed to the
\* session store hold at most one entry per file name, and the entry has the
\* content of the last file of that name over all files events of the stream.
C13_DedupKeepsLastByName ==
    pc = "done"
        => /\ NamesOnce(stored[1].images)
           /\ NamesOnce(stored[1].html_files)
           /\ \A i \in DOMAIN stored[1].images :
                 stored[1].images[i].bytes
                    = AllImages[LastNamed(AllImages, stored[1].images[i].name)].bytes
           /\ \A i \in DOMAIN stored[1].html_files :
                 [utf8 |-> stored[1].html_files[i].content]
                    = AllHtml[LastNamed(AllHtml, stored[1].html_files[i].name)].bytes

\* a name that came in two files events with different content and is stored
C13_Witness ==
    /\ pc = "done"
    /\ \E i, j \in DOMAIN AllImages :
          /\ i < j
          /\ AllImages[i].name = AllImages[j].name
          /\ IsBytes(Get(AllImages[i], "bytes", NoneValue))
          /\ IsBytes(Get(AllImages[j], "bytes", NoneValue))
          /\ AllImages[i].bytes # AllImages[j].bytes
          /\ \E k \in DOMAIN stored[1].images : stored[1].images[k].name = AllImages[i].name
    /\ \E i, j \in DOMAIN history :
          /\ i < j
          /\ \E f \in DOMAIN ImagesIn(Get(Get(history[i].event, "files", Empty), "files", Empty)) :
             \E g \in DOMAIN ImagesIn(Get(Get(history[j].event, "files", Empty), "files", Empty)) :
                ImagesIn(history[i].event.files.files)[f].name
                   = ImagesIn(history[j].event.files.files)[g].name

\* an HTML file whose bytes are not valid UTF-8
IsUndecodable(f) ==
    IsBytes(Get(f, "bytes", NoneValue)) /\ Decode(f.bytes).err

\* C19: in the final HTML pass a file whose bytes are not valid UTF-8 is
\* dropped and every other file of the stream, before or after it, is still
\* returned (the last file of each name, with its decoded content); the
\* decode failure never aborts the invocation.
C19_UndecodableHtmlIsDropped ==
    /\ (\E i \in DOMAIN AllHtml : IsUndecodable(AllHtml[i])) => pc # "aborted"
    /\ pc = "done"
          => /\ \A i \in DOMAIN AllHtml :
                   LET f == AllHtml[i]
                   IN  (/\ Get(f, "name", "") # ""
                        /\ i = LastNamed(AllHtml, f.name)
                        /\ IsBytes(Get(f, "bytes", NoneValue)))
                           => IF IsUndecodable(f)
                              THEN \A k \in DOMAIN stored[1].html_files :
                                      stored[1].html_files[k].name # f.name
                              ELSE \E k \in DOMAIN stored[1].html_files :
                                      stored[1].html_files[k]
                                         = [name |-> f.name, content |-> f.bytes.utf8]
             /\ \A k \in DOMAIN stored[1].html_files :
                   \E i \in DOMAIN AllHtml :
                      /\ Get(AllHtml[i], "name", "") = stored[1].html_files[k].name
                      /\ ~IsUndecodable(AllHtml[i])

\* a finished stream with an undecodable HTML file between two decodable
\* files of other names, both of which are returned
C19_Witness ==
    /\ pc = "done"
    /\ \E i, j, k \in DOMAIN AllHtml :
          /\ i < j /\ j < k
          /\ IsUndecodable(AllHtml[j])
          /\ Get(AllHtml[i], "name", "") # Get(AllHtml[j], "name", "")
          /\ Get(AllHtml[k], "name", "") # Get(AllHtml[j], "name", "")
          /\ \E a, b \in DOMAIN stored[1].html_files :
                /\ stored[1].html_files[a].name = Get(AllHtml[i], "name", "")
                /\ stored[1].html_files[b].name = Get(AllHtml[k], "name", "")
                /\ a # b

-----------------------------------------------------------------------------
(* Trace events of every category, records with several category keys,     *)
(* and caller chains that the name resolution reads                         *)

ParsedPre  == [isValid |-> TRUE, rationale |-> << "v" >>]
Assessment == [topicPolicy |-> [topics |-> << [name |-> "t", type |-> "DENY",
                                               action |-> "BLOCKED"] >>]]

ContentAssessment ==
    [contentPolicy |-> [filters |-> << [type |-> "HATE", confidence |-> "HIGH",
                                        action |-> "BLOCKED"] >>],
     wordPolicy |-> [customWords |-> << [match |-> "w", action |-> "BLOCKED"] >>]]

OrchestrationOutput == [modelInvocationOutput |->
                           [metadata |-> Usage(3, 2), rawResponse |-> RawResponse]]
PreOutput     == [modelInvocationOutput |->
                     [metadata |-> Usage(4, 1), parsedResponse |-> ParsedPre]]
PostOutput    == [modelInvocationOutput |-> [metadata |-> Usage(5, 2)]]
RoutingOutput == [modelInvocationOutput |->
                     [metadata |-> Usage(7, 3), rawResponse |-> RawResponse]]

\* well-formed records that carry exactly one category key
SingleKeyRecords ==
    { [orchestrationTrace |-> OrchestrationOutput],
      [orchestrationTrace |-> [modelInvocationOutput |->
                                  [metadata |-> Empty, rawResponse |-> RawResponse]]],
      [preProcessingTrace |-> PreOutput],
      [postProcessingTrace |-> PostOutput],
      [routingClassifierTrace |-> RoutingOutput],
      [failureTrace |-> [failureReason |-> << "f" >>]],
      [guardrailTrace |-> [action |-> "INTERVENED",
                           inputAssessments |-> << Assessment >>,
                           outputAssessments |-> << ContentAssessment, Assessment >>]] }

\* well-formed records that carry several category keys
MultiKeyRecords ==
    { [failureTrace |-> [failureReason |-> << "f" >>],
       orchestrationTrace |-> OrchestrationOutput],
      [routingClassifierTrace |-> RoutingOutput, preProcessingTrace |-> PreOutput],
      [preProcessingTrace |-> PreOutput, orchestrationTrace |-> OrchestrationOutput,
       postProcessingTrace |-> PostOutput],
      [guardrailTrace |-> [inputAssessments |-> << Assessment >>],
       postProcessingTrace |-> PostOutput],
      [orchestrationTrace |-> OrchestrationOutput, postProcessingTrace |-> PostOutput] }

\* caller chains of length 2: a sub-agent ARN, an entry without agentAliasArn,
\* an ARN without "/", the empty ARN, an ARN whose second segment is empty
Chains ==
    { ChainSubAgent,
      ChainSupervisor \o << Empty >>,
      ChainSupervisor \o << [agentAliasArn |-> << "arn:aws:bedrock" >>] >>,
      ChainSupervisor \o << [agentAliasArn |-> << "" >>] >>,
      ChainSupervisor \o << [agentAliasArn |-> << "arn:aws:bedrock", "" >>] >> }

TraceAlphabet ==
    { Trace(r) : r \in SingleKeyRecords \cup MultiKeyRecords }
    \cup { TraceBy([orchestrationTrace |-> Rationale], chain) : chain \in Chains }
    \cup { Trace([orchestrationTrace |-> Rationale]), SupervisorStep }

\* the None that .get("agentName") gives for an agent without that key
\* (agent names are atoms of the model, and so is this one)
NoAgentName == "<None>"

\* what get_agent may do when it is called: raise (also: answer without
\* "agent"), return the agent's name, or return an agent without agentName
DirectoryOutcomes(event) ==
    LookupOutcomes(event)
    \cup (IF CallsGetAgent(event)
          THEN {[called |-> TRUE, raises |-> FALSE, agentName |-> NoAgentName]}
          ELSE {})

MaxTraceEvents == 3      \* longest stream of SpecTrace

ConsumeTrace ==
    /\ Len(history) < MaxTraceEvents
    /\ \E event \in TraceAlphabet :
          \E lookup \in DirectoryOutcomes(event) : Consume(event, lookup)

NextTrace == ConsumeTrace \/ Finish

SpecTrace == Init /\ [][NextTrace]_vars

\* the category keys in the order of precedence of spec.md
Precedence == << "routingClassifierTrace", "failureTrace", "guardrailTrace",
                 "preProcessingTrace", "orchestrationTrace", "postProcessingTrace" >>

\* the record with, of its category keys, only the first in precedence
FirstCategoryOnly(record) ==
    IF DOMAIN record \cap CategoryKeys = {} THEN record
    ELSE LET k == CHOOSE i \in DOMAIN Precedence :
                     /\ Precedence[i] \in DOMAIN record
                     /\ \A j \in 1..(i - 1) : Precedence[j] \notin DOMAIN record
             keep == (DOMAIN record \ CategoryKeys) \cup {Precedence[k]}
         IN  [key \in keep |-> record[key]]

\* the history with every trace record cut down to its first category
OneHandlerHistory ==
    [i \in DOMAIN history |->
        IF "trace" \in DOMAIN history[i].event /\ "trace" \in DOMAIN history[i].event.trace
        THEN [history[i] EXCEPT !.event.trace.trace = FirstCategoryOnly(@)]
        ELSE history[i]]

\* C14: for every trace record, whatever category keys it carries, at most
\* one category handler is invoked, chosen by the precedence routing,
\* failure, guardrail, pre-processing, orchestration, post-processing: the
\* run leaves the Stats and the span events of the run in which every record
\* holds only its first category.
C14_AtMostOneHandler ==
    pc \in {"running", "aborted"}
        => LET one == Run(OneHandlerHistory)
           IN  /\ one.stats = stats
               /\ one.events = span_events
               /\ one.err = (pc = "aborted")

\* C15: agent-name resolution is never fatal: for every caller chain of
\* length > 1 (an entry without agentAliasArn, an ARN without "/", a lookup
\* that raises or returns no name included) processing goes on and the agent
\* name used is the resolved name or the default "Supervisor".
C15_NameResolutionNeverFatal ==
    LET n == Len(history)
    IN  (/\ n >= 1
         /\ "trace" \in DOMAIN history[n].event
         /\ Len(Get(history[n].event.trace, "callerChain", Empty)) > 1
         /\ history[n].event.trace.trace = [orchestrationTrace |-> Rationale]
         /\ pc # "done")
            => /\ pc = "running"
               /\ span_events # << >>
               /\ span_events[Len(span_events)].name = "agent-reasoning-step"
               /\ span_events[Len(span_events)].agent_name
                     \in {"Supervisor"}
                         \cup (IF history[n].lookup.called /\ ~history[n].lookup.raises
                               THEN {history[n].lookup.agentName} ELSE {})

\* the usage that the model-invocation output of a record carries, if any
UsageIn(record) ==
    LET key    == CHOOSE k \in DOMAIN record : k \in CategoryKeys
        output == Get(record[key], "modelInvocationOutput", Empty)
    IN  Get(Get(output, "metadata", Empty), "usage",
            [inputTokens |-> 0, outputTokens |-> 0])

\* sums of the usage over the first n records of the history
RECURSIVE InputSum(_)
InputSum(n) ==
    IF n = 0 THEN 0 ELSE InputSum(n - 1) + UsageIn(history[n].event.trace.trace).inputTokens
RECURSIVE OutputSum(_)
OutputSum(n) ==
    IF n = 0 THEN 0 ELSE OutputSum(n - 1) + UsageIn(history[n].event.trace.trace).outputTokens

\* every event so far is a well-formed trace record with one category key
OnlySingleKeyRecords ==
    \A i \in DOMAIN history : history[i].event \in { Trace(r) : r \in SingleKeyRecords }

\* C16: for every stream of well-formed trace records with exactly one
\* category key each, the final input and output tokens are the sums of the
\* usage of all model-invocation outputs with usage metadata in the
\* orchestration, pre-processing, post-processing and routing-classifier
\* records, in whatever order they come; records without usage add 0.
C16_TokensAreSumOfUsage ==
    OnlySingleKeyRecords
        => /\ pc # "aborted"
           /\ stats.input_tokens = InputSum(Len(history))
           /\ stats.output_tokens = OutputSum(Len(history))
           /\ pc = "done" =>
                 span_events[Len(span_events)].usage_details
                    = [input |-> InputSum(Len(history)), output |-> OutputSum(Len(history))]

\* a finished stream with usage from three different categories, a routing
\* record among them, not in the order of precedence
C16_Witness ==
    /\ pc = "done"
    /\ OnlySingleKeyRecords
    /\ Len(history) = 3
    /\ "postProcessingTrace" \in DOMAIN history[1].event.trace.trace
    /\ "routingClassifierTrace" \in DOMAIN history[2].event.trace.trace
    /\ "preProcessingTrace" \in DOMAIN history[3].event.trace.trace
    /\ stats.input_tokens = 16
    /\ stats.output_tokens = 6

-----------------------------------------------------------------------------
(* The end of the stream *)

\* positions of a call in the calls made after the loop
CallPositions(name) == { i \in DOMAIN calls : calls[i] = name }

\* C17: for every stream consumed to exhaustion exactly one final usage
\* (generation) event is emitted; it comes after every span event of the
\* stream's events and after the media dedup pass, before the answer is
\* handed to the session store, and carries the token totals of the stream.
C17_OneFinalUsageEvent ==
    pc = "done"
        => LET n == Len(span_events)
               whole == Run(history)
           IN  /\ Cardinality({ i \in DOMAIN span_events :
                                   span_events[i].name = "agent-costs" }) = 1
               /\ span_events[n].name = "agent-costs"
               /\ SubSeq(span_events, 1, n - 1) = whole.events
               /\ span_events[n].usage_details
                     = [input |-> whole.stats.input_tokens,
                        output |-> whole.stats.output_tokens]
               /\ Cardinality(CallPositions("generation")) = 1
               /\ \A g \in CallPositions("generation") :
                     /\ \E i \in CallPositions("display_images") : i < g
                     /\ \E i \in CallPositions("display_html_files") : i < g
                     /\ \A i \in CallPositions("display_images")
                                 \cup CallPositions("display_html_files") : i < g
                     /\ \A i \in CallPositions("add_assistant_message") : g < i
               /\ Cardinality(CallPositions("add_assistant_message")) = 1

\* a finished stream whose events emitted span events, fed the token totals
\* and brought files
C17_Witness ==
    /\ pc = "done"
    /\ Len(span_events) >= 3
    /\ stats.input_tokens > 0
    /\ stored[1].images # << >>

\* C18: when the event stream itself raises while it is iterated, the
\* failure propagates to the caller of invoke_agent and the invocation ends
\* with the static fallback answer as its answer.
C18_TransportFailureGivesFallback ==
    pc = "transport_failed"
        => /\ stored # << >>
           /\ stored[1].content = FallbackAnswer

-----------------------------------------------------------------------------
(* Two invoke_agent calls at the same time (two user sessions), their       *)
(* events interleaved in every order                                        *)

TextShort == << "o", "k" >>

TwoEvents ==
    { Chunk(TextShort, << Citation(1, 2, UrlA) >>),
      Trace([orchestrationTrace |-> OrchestrationOutput]),
      SupervisorStep,
      FilesOf(<< ImageFile("plot.png", "1"), HtmlFile("report.html", << "h" >>) >>) }

MaxEach == 2      \* longest stream of each call of SpecTwo

ConsumeOwn ==
    /\ Len(history) < MaxEach
    /\ \E event \in TwoEvents : Consume(event, [called |-> FALSE, raises |-> FALSE])

ConsumeOther ==
    /\ Len(peer.history) < MaxEach
    /\ \E event \in TwoEvents : ConsumePeer(event, [called |-> FALSE, raises |-> FALSE])

NextTwo == ConsumeOwn \/ ConsumeOther \/ Finish \/ FinishPeer

SpecTwo == Init /\ [][NextTwo]_vars

\* what a call that ran alone over the entries has: Stats, answer and media
Alone(entries) ==
    LET d == Run(entries)
    IN  [stats |-> d.stats, output_text |-> d.output_text,
         images |-> display_images(d.image_files),
         html_files |-> display_html_files(d.html_files)]

\* C20: Stats and media accumulators are per invocation: every call starts
\* from zero tokens, zero step counter and empty media lists, and for any
\* interleaving of the events of two concurrent calls the Stats, answer and
\* media of each are those it has when it runs alone.
C20_AccumulatorsPerInvocation ==
    /\ history = << >>
          => (stats = AgentStats /\ image_files = << >> /\ html_files = << >>)
    /\ peer.history = << >>
          => (peer.d.stats = AgentStats /\ peer.d.image_files = << >>
              /\ peer.d.html_files = << >>)
    /\ Alone(history) = [stats |-> stats, output_text |-> output_text,
                         images |-> display_images(image_files),
                         html_files |-> display_html_files(html_files)]
    /\ Alone(peer.history) = [stats |-> peer.d.stats, output_text |-> peer.d.output_text,
                              images |-> display_images(peer.d.image_files),
                              html_files |-> display_html_files(peer.d.html_files)]
    /\ pc = "done"
          => stored = << [content |-> Alone(history).output_text,
                          images |-> Alone(history).images,
                          html_files |-> Alone(history).html_files] >>
    /\ peer.pc = "done"
          => peer.stored = << [content |-> Alone(peer.history).output_text,
                               images |-> Alone(peer.history).images,
                               html_files |-> Alone(peer.history).html_files] >>

\* both calls finished after their events were interleaved, each with tokens,
\* steps and media of its own, the two streams different
C20_Witness ==
    /\ pc = "done" /\ peer.pc = "done"
    /\ Len(history) = 2 /\ Len(peer.history) = 2
    /\ stats.input_tokens > 0 /\ peer.d.stats.step_counter # FromInt(0)
    /\ stats # peer.d.stats
    /\ stored[1].images # << >>
    /\ peer.stored[1].content # FallbackAnswer

-----------------------------------------------------------------------------
(* Cancellation *)

MaxBeforeCancel == 3      \* longest stream of SpecCancel

ConsumeBeforeCancel ==
    /\ Len(history) < MaxBeforeCancel
    /\ \E event \in TwoEvents : Consume(event, [called |-> FALSE, raises |-> FALSE])

NextCancel == ConsumeBeforeCancel \/ Finish \/ Cancel

SpecCancel == Init /\ [][NextCancel]_vars

\* C21: when the caller cancels or times out while the stream is consumed,
\* the driver stops consuming and returns the partial answer, Stats and media
\* accumulated so far instead of discarding them.
C21_CancelReturnsPartial ==
    pc = "cancelled"
        => /\ stored = << [content |-> output_text,
                           images |-> display_images(image_files),
                           html_files |-> display_html_files(html_files)] >>
           /\ span_events # << >>
           /\ span_events[Len(span_events)].name = "agent-costs"
           /\ span_events[Len(span_events)].usage_details
                 = [input |-> stats.input_tokens, output |-> stats.output_tokens]

-----------------------------------------------------------------------------
(* The citation loop, citation by citation *)

\* T[s_i:e_i] + " [" + url_i + "] " for the citations from the i-th on
\* (i counts from 1, so the 0-based index is i - 1)
RECURSIVE CitedParts(_, _, _)
CitedParts(T, citations, i) ==
    IF i > Len(citations) THEN << >>
    ELSE LET s == SpanOf(citations[i]).start - i
             e == SpanOf(citations[i]).end - (i + 1) + 4
         IN  Slice(T, s, e) \o << " ", "[" >> \o RefUrl(citations[i]) \o << "]", " " >>
             \o CitedParts(T, citations, i + 1)

\* C22: for a non-empty citation list in which every citation has a
\* reference URL, with T the stripped text, s_i = spanStart_i - (i + 1) and
\* e_i = spanEnd_i - (i + 2) + 4, the result is T[:s_0] followed, in order, by
\* T[s_i:e_i] + " [" + url_i + "] "; the text between cited spans and after
\* the last one is not in it.
C22_CitedAnswerShape ==
    (pc = "done" /\ BytesPositions # {})
        => LET event     == history[LastBytesPosition].event
               citations == CitationsOf(event)
               T         == StripMarkers(Decode(BytesOf(event)).value)
           IN  (/\ citations # Empty
                /\ \A i \in DOMAIN citations :
                      HasSpan(citations[i]) /\ RefUrl(citations[i]) # Empty)
                   => output_text
                         = Slice(T, 0, SpanOf(citations[1]).start - 1)
                           \o CitedParts(T, citations, 1)

\* a finished stream whose last chunk has two citations with URLs, with text
\* between the cited spans or after the last one
C22_Witness ==
    /\ pc = "done"
    /\ BytesPositions # {}
    /\ LET event     == history[LastBytesPosition].event
           citations == CitationsOf(event)
       IN  /\ Len(citations) >= 2
           /\ \A i \in DOMAIN citations :
                 HasSpan(citations[i]) /\ RefUrl(citations[i]) # Empty
           /\ SpanOf(citations[Len(citations)]).end - (Len(citations) + 1) + 4
                 < Len(StripMarkers(Decode(BytesOf(event)).value))

-----------------------------------------------------------------------------
(* Pre-processing, orchestration and post-processing as alternatives *)

\* the record without the keys that, by the claim, get no handler: with
\* preProcessingTrace neither orchestrationTrace nor postProcessingTrace,
\* with orchestrationTrace not postProcessingTrace
PhaseAlternative(record) ==
    LET dropped == IF "preProcessingTrace" \in DOMAIN record
                   THEN {"orchestrationTrace", "postProcessingTrace"}
                   ELSE IF "orchestrationTrace" \in DOMAIN record
                   THEN {"postProcessingTrace"}
                   ELSE {}
    IN  [key \in DOMAIN record \ dropped |-> record[key]]

PhaseAlternativeHistory ==
    [i \in DOMAIN history |->
        IF "trace" \in DOMAIN history[i].event /\ "trace" \in DOMAIN history[i].event.trace
        THEN [history[i] EXCEPT !.event.trace.trace = PhaseAlternative(@)]
        ELSE history[i]]

\* C23: the orchestration handler and the post-processing handler never both
\* run for one record, and neither runs for a record with preProcessingTrace:
\* the run leaves the Stats and span events of the run in which those keys
\* are taken out of the records.
C23_PhasesAreAlternatives ==
    pc \in {"running", "aborted"}
        => LET alt == Run(PhaseAlternativeHistory)
           IN  /\ alt.stats = stats
               /\ alt.events = span_events
               /\ alt.err = (pc = "aborted")

\* a record with orchestration and post-processing keys and a record with all
\* three keys were processed
C23_Witness ==
    /\ pc = "running"
    /\ \E i, j \in DOMAIN history :
          /\ {"orchestrationTrace", "postProcessingTrace"}
                \subseteq DOMAIN history[i].event.trace.trace
          /\ "preProcessingTrace" \notin DOMAIN history[i].event.trace.trace
          /\ {"preProcessingTrace", "orchestrationTrace", "postProcessingTrace"}
                \subseteq DOMAIN history[j].event.trace.trace
    /\ stats.input_tokens = 7

\* C24: a rationale of an orchestration record counts as a supervisor tick
\* exactly when the record's callerChain has length <= 1 (absent: 0) and as a
\* sub-agent tick (+0.1) exactly when it is longer, whether or not the
\* sub-agent's name could be resolved.
C24_TickByChainLength ==
    LET n == Len(history)
    IN  (n >= 1 /\ IsRationale(history[n].event))
           => LET before == CounterAfter(n - 1)
              IN  stats.step_counter
                     = IF ChainLength(history[n].event) <= 1
                       THEN FromInt(Floor(FAdd(before, FromInt(1))))
                       ELSE FAdd(before, Tenth)

-----------------------------------------------------------------------------
(* Orchestration records: sub-keys, invocation types, observation types *)

InvocationOf(input) == [orchestrationTrace |-> [invocationInput |-> input]]
ObservationOf(observation) == [orchestrationTrace |-> [observation |-> observation]]

ToolInput == [function |-> "f", parameters |-> << [name |-> "n", value |-> "v"] >>]

\* records with every sub-key, with two sub-keys, with an invocation input
\* and an observation
SeveralSubKeys ==
    { [orchestrationTrace |->
          [modelInvocationInput |-> ModelInput,
           modelInvocationOutput |-> OrchestrationOutput.modelInvocationOutput,
           rationale |-> Rationale.rationale,
           invocationInput |->
               [invocationType |-> PyStr("ACTION_GROUP"),
                actionGroupInvocationInput |-> ToolInput,
                codeInterpreterInvocationInput |-> [code |-> << "1" >>]],
           observation |-> [type |-> PyStr("REPROMPT"),
                            repromptResponse |-> [source |-> "ACTION_GROUP"]]]],
      [orchestrationTrace |->
          [rationale |-> Rationale.rationale, modelInvocationInput |-> ModelInput]],
      [orchestrationTrace |->
          [observation |-> [type |-> PyStr("AGENT_COLLABORATOR")],
           invocationInput |-> [invocationType |-> PyStr("AGENT_COLLABORATOR")]]] }

\* invocation inputs and observations of every type, of another type, of
\* a type that is not a string, and without type
TypedRecords ==
    { InvocationOf([invocationType |-> PyStr("AGENT_COLLABORATOR"),
                    agentCollaboratorInvocationInput |-> [agentCollaboratorName |-> "a"]]),
      InvocationOf([invocationType |-> PyStr("ACTION_GROUP"),
                    actionGroupInvocationInput |-> ToolInput]),
      InvocationOf([invocationType |-> PyStr("KNOWLEDGE_BASE")]),
      InvocationOf([invocationType |-> PyStr("FINISH")]),
      InvocationOf([invocationType |-> [int |-> 7]]),
      InvocationOf(Empty),
      ObservationOf([type |-> PyStr("AGENT_COLLABORATOR")]),
      ObservationOf([type |-> PyStr("ACTION_GROUP"),
                     actionGroupInvocationOutput |-> [text |-> << "{", "}" >>]]),
      ObservationOf([type |-> PyStr("KNOWLEDGE_BASE")]),
      ObservationOf([type |-> PyStr("REPROMPT")]),
      ObservationOf([type |-> PyStr("FINISH")]),
      ObservationOf([type |-> [int |-> 7]]),
      ObservationOf(Empty) }

\* an action-group invocation of a function without parameters
ToolInputWithoutParameters ==
    InvocationOf([invocationType |-> PyStr("ACTION_GROUP"),
                  actionGroupInvocationInput |-> [function |-> "f"]])

OrchAlphabet == SeveralSubKeys \cup TypedRecords \cup { ToolInputWithoutParameters }

MaxOrchEvents == 2      \* longest stream of SpecOrch

ConsumeOrch ==
    /\ Len(history) < MaxOrchEvents
    /\ \E r \in OrchAlphabet : Consume(Trace(r), [called |-> FALSE, raises |-> FALSE])

NextOrch == ConsumeOrch \/ Finish

SpecOrch == Init /\ [][NextOrch]_vars

\* the span event of each invocation type and of each observation type
InvocationEventName ==
    [AGENT_COLLABORATOR |-> "agent-agent-collaborator",
     ACTION_GROUP       |-> "agent-tool-invocation",
     KNOWLEDGE_BASE     |-> "agent-knowledge-base-lookup"]
ObservationEventName ==
    [AGENT_COLLABORATOR |-> "agent-agent-collaborator-response",
     ACTION_GROUP       |-> "agent-action-group-response",
     KNOWLEDGE_BASE     |-> "agent-knowledge-base-response",
     REPROMPT           |-> "agent-reprompt-response"]

\* the event name of a type in a table of names, none for any other value
TypedName(type, table) ==
    IF IsStr(type) /\ type.str \in DOMAIN table THEN << table[type.str] >> ELSE << >>

\* the span event names of one orchestration record, sub-key by sub-key in the
\* order model input, model output, rationale, invocation input, code
\* interpreter input, observation
ExpectedNames(o) ==
    (IF "modelInvocationInput" \in DOMAIN o THEN << "agent-model-input" >> ELSE << >>)
    \o (IF "modelInvocationOutput" \in DOMAIN o THEN << "agent-model-output" >> ELSE << >>)
    \o (IF "rationale" \in DOMAIN o THEN << "agent-reasoning-step" >> ELSE << >>)
    \o (IF "invocationInput" \in DOMAIN o
        THEN TypedName(Get(o.invocationInput, "invocationType", NoneValue),
                       InvocationEventName)
             \o (IF Get(Get(o.invocationInput, "codeInterpreterInvocationInput", Empty),
                        "code", Empty) # Empty
                 THEN << "agent-code-interpreter" >> ELSE << >>)
        ELSE << >>)
    \o (IF "observation" \in DOMAIN o
        THEN TypedName(Get(o.observation, "type", NoneValue), ObservationEventName)
        ELSE << >>)

RECURSIVE ExpectedNamesUpTo(_)
ExpectedNamesUpTo(n) ==
    IF n = 0 THEN << >>
    ELSE ExpectedNamesUpTo(n - 1)
         \o ExpectedNames(history[n].event.trace.trace.orchestrationTrace)

\* C25: for an orchestration record with several sub-keys every matching
\* sub-handler fires exactly once and their span events come in the order
\* model input, model output, rationale, invocation input, code interpreter
\* input, observation; across records the span events follow the arrival
\* order of the records.
C25_SubHandlersInOrder ==
    (pc = "running"
       /\ \A i \in DOMAIN history :
             history[i].event \in { Trace(r) : r \in SeveralSubKeys \cup TypedRecords })
        => [i \in DOMAIN span_events |-> span_events[i].name]
              = ExpectedNamesUpTo(Len(history))

\* the record with every sub-key, then a record with two sub-keys
C25_Witness ==
    /\ pc = "running"
    /\ Len(history) = 2
    /\ DOMAIN history[1].event.trace.trace.orchestrationTrace
          = {"modelInvocationInput", "modelInvocationOutput", "rationale",
             "invocationInput", "observation"}
    /\ DOMAIN history[2].event.trace.trace.orchestrationTrace
          = {"modelInvocationInput", "rationale"}
    /\ Len(span_events) = 8


\* the state of the invocation before its last event
BeforeLast == Run(SubSeq(history, 1, Len(history) - 1))

\* the span events of the last event
OfLast == SubSeq(span_events, Len(BeforeLast.events) + 1, Len(span_events))

\* the last event is a record with the one sub-key key
LastHasOnly(key) ==
    /\ Len(history) >= 1
    /\ pc # "done"
    /\ DOMAIN history[Len(history)].event.trace.trace.orchestrationTrace = {key}

\* what a typed record does: one span event of the name of its type and no
\* error for a type of the table, and nothing at all for any other type
TypedDispatch(type, table) ==
    /\ pc = "running"
    /\ stats = BeforeLast.stats
    /\ IF IsStr(type) /\ type.str \in DOMAIN table
       THEN Len(OfLast) = 1 /\ OfLast[1].name = table[type.str]
       ELSE OfLast = << >>

\* C26: an invocation input of type AGENT_COLLABORATOR, ACTION_GROUP or
\* KNOWLEDGE_BASE and an observation of type AGENT_COLLABORATOR, ACTION_GROUP,
\* KNOWLEDGE_BASE or REPROMPT emit exactly one span event, distinct per type;
\* any other type, a type that is not a string and a missing type emit
\* nothing, raise no error and leave Stats unchanged.
C26_TypeDispatch ==
    LET o == history[Len(history)].event.trace.trace.orchestrationTrace
    IN  /\ LastHasOnly("invocationInput")
              => TypedDispatch(Get(o.invocationInput, "invocationType", NoneValue),
                               InvocationEventName)
        /\ LastHasOnly("observation")
              => TypedDispatch(Get(o.observation, "type", NoneValue),
                               ObservationEventName)


-----------------------------------------------------------------------------
(* Guardrail records and failure records *)

\* the run up to and including event i
UpTo(i) == Run(SubSeq(history, 1, i))

\* event i is a record with the one category key key, and it is processed
OnlyCategory(i, key) ==
    /\ DOMAIN history[i].event.trace.trace = {key}
    /\ ~UpTo(i - 1).err

\* the span events of event i
EventsOf(i) == SubSeq(UpTo(i).events, Len(UpTo(i - 1).events) + 1, Len(UpTo(i).events))

\* C27: processing a guardrail record or a failure record leaves Stats and
\* the answer text unchanged and does not end the loop, so that the driver
\* goes on with the next event; a failure record emits one span event, at
\* ERROR level.
C27_GuardrailAndFailureKeepStats ==
    LET i == Len(history)
    IN  i >= 1 =>
        /\ (OnlyCategory(i, "failureTrace") \/ OnlyCategory(i, "guardrailTrace"))
              => /\ UpTo(i).stats = UpTo(i - 1).stats
                 /\ UpTo(i).output_text = UpTo(i - 1).output_text
                 /\ ~UpTo(i).err
                 /\ pc # "aborted"
        /\ OnlyCategory(i, "failureTrace")
              => /\ Len(EventsOf(i)) = 1
                 /\ EventsOf(i)[1].level = "ERROR"

\* usage, then a failure record, then a guardrail record with both slots,
\* and the loop still running with the usage of the first event
C27_Witness ==
    /\ pc = "running"
    /\ Len(history) = 3
    /\ stats.input_tokens = 4
    /\ OnlyCategory(2, "failureTrace")
    /\ OnlyCategory(3, "guardrailTrace")
    /\ "outputAssessments" \in DOMAIN history[3].event.trace.trace.guardrailTrace
    /\ Len(span_events) = Len(UpTo(1).events) + 4


-----------------------------------------------------------------------------
(* The major part of the step counter *)

\* C28: after any interleaving of supervisor and sub-agent reasoning steps
\* the integer part of stepCounter is the number of supervisor steps
\* processed so far: sub-agent steps never reach the integer part.
C28_IntegerPartCountsSupervisorSteps ==
    Floor(stats.step_counter) = NSupervisorSteps


-----------------------------------------------------------------------------
(* tools/clinicaltrials/utils/helpers.py: truncate_response *)

\* A text is the list text.split("\n") of its lines, each line given by the
\* size in bytes of its UTF-8 encoding; the empty text is << 0 >>.

MAX_RESPONSE_SIZE == 24576      \* 24 * 1024
NoticeSize == 42                \* "... (Response truncated due to size limit)"

\* len("\n".join(lines).encode("utf-8"))
RECURSIVE EncodedSize(_)
EncodedSize(lines) ==
    IF lines = Empty THEN 0
    ELSE IF Len(lines) = 1 THEN Head(lines)
    ELSE Head(lines) + 1 + EncodedSize(Tail(lines))

\* helpers.py:81-88: the loop over the lines
RECURSIVE TruncateLoop(_, _, _)
TruncateLoop(lines, result, current_size) ==
    IF lines = Empty THEN result
    ELSE LET line_size == Head(lines) + 1
         IN  IF current_size + line_size > MAX_RESPONSE_SIZE
             THEN Append(result, NoticeSize)
             ELSE TruncateLoop(Tail(lines), Append(result, Head(lines)),
                               current_size + line_size)

\* helpers.py:74-90
truncate_response(text) ==
    IF text = << 0 >> \/ EncodedSize(text) <= MAX_RESPONSE_SIZE THEN text
    ELSE TruncateLoop(text, << >>, 0)

\* line sizes around the limit and around the room the notice needs
LineSizes == {0, 100, 12000, 24533, 24534, 24575, 24576, 24577}

MaxLines == 3           \* most lines of a text of SpecTruncate

Texts == UNION { [1..n -> LineSizes] : n \in 1..MaxLines }

\* one call truncate_response(text)
CallTruncate ==
    /\ tool = NoToolCall
    /\ \E text \in Texts :
          tool' = [op |-> "truncate_response", text |-> text,
                   result |-> truncate_response(text)]
    /\ UNCHANGED agent_vars

NextTruncate == CallTruncate

SpecTruncate == Init /\ [][NextTruncate]_vars

\* C29: the UTF-8 size of what truncate_response returns is at most
\* MAX_RESPONSE_SIZE, the truncation notice and the joining newlines
\* included, and a text within the limit is returned unchanged.
C29_ResultFitsLimit ==
    tool.op = "truncate_response"
        => /\ EncodedSize(tool.result) <= MAX_RESPONSE_SIZE
           /\ EncodedSize(tool.text) <= MAX_RESPONSE_SIZE => tool.result = tool.text


-----------------------------------------------------------------------------
(* tools/clinicaltrials/services/trial_service.py: search_trials *)

MAX_TRIALS == 100

\* the None of response_data.get("nextPageToken") for a page without the key
NoPageToken == "<None>"

\* numbers of studies of a page, at most pageSize = MAX_TRIALS
PageSizes == {0, 1, 60, 100}

\* what fetch may give: an exception, something that is no non-empty dict,
\* or a page of studies with or without a token (the empty token included)
Responses ==
    { [kind |-> "raises"], [kind |-> "invalid"] }
    \cup { [kind |-> "page", studies |-> n, nextPageToken |-> t] :
              n \in PageSizes, t \in {NoPageToken, "", "t"} }

\* trial_service.py:45-46
CallSearchTrials ==
    /\ tool = NoToolCall
    /\ tool' = [op |-> "search_trials", pc |-> "loop", all_studies |-> 0,
                next_page_token |-> NoPageToken]
    /\ UNCHANGED agent_vars

\* trial_service.py:47-71: one turn of the while loop.  all_studies is the
\* length of the list.
FetchPage ==
    /\ tool.op = "search_trials"
    /\ tool.pc = "loop"
    /\ \E response_data \in Responses :
          IF response_data.kind # "page" \/ response_data.studies = 0
          THEN tool' = [tool EXCEPT !.pc = "build"]
          ELSE LET all_studies == tool.all_studies + response_data.studies
                   next_page_token == response_data.nextPageToken
               IN  tool' = [tool EXCEPT
                              !.all_studies = all_studies,
                              !.next_page_token = next_page_token,
                              !.pc = IF next_page_token \in {NoPageToken, ""}
                                        \/ all_studies >= MAX_TRIALS
                                     THEN "build" ELSE "loop"]
    /\ UNCHANGED agent_vars

\* trial_service.py:73-89: one trial per study (a study whose conversion
\* raises is skipped; the studies of the model all convert)
ReturnTrials ==
    /\ tool.op = "search_trials"
    /\ tool.pc = "build"
    /\ tool' = [op |-> "search_trials", pc |-> "returned",
                all_studies |-> tool.all_studies,
                next_page_token |-> tool.next_page_token,
                trials_list |-> tool.all_studies]
    /\ UNCHANGED agent_vars

NextSearch == CallSearchTrials \/ FetchPage \/ ReturnTrials

SpecSearch == Init /\ [][NextSearch]_vars

\* the loop is not suspended for ever: fetch returns or raises
SpecSearchFair == SpecSearch /\ WF_vars(NextSearch)

\* every call of search_trials returns
SearchTerminates ==
    (tool.op = "search_trials") ~> (tool.op = "search_trials" /\ tool.pc = "returned")

\* C30: for every sequence of page responses, each of at most MAX_TRIALS
\* studies and with or without a nextPageToken, the pagination loop ends and
\* the returned list holds at most MAX_TRIALS trials.
C30_AtMostMaxTrials ==
    (tool.op = "search_trials" /\ tool.pc = "returned")
        => tool.trials_list <= MAX_TRIALS

=============================================================================
